---------------------------- MODULE Spec2Model ----------------------------
(***************************************************************************)
(* The advisory object lock class of src/cls/lock/cls_lock.cc: the         *)
(* persisted lock records (one extended attribute "lock.<name>" per lock   *)
(* name on an object), the in-memory bid table of lock_obj, and the seven  *)
(* class methods lock, unlock, break_lock, get_info, list_locks,           *)
(* assert_locked and set_cookie.                                           *)
(*                                                                         *)
(* The object store behind cls_cxx_getxattr / cls_cxx_setxattr /           *)
(* cls_cxx_getxattrs / cls_cxx_remove is modelled by two variables:        *)
(* exists[o] (the object is there) and xattrs[o] (its attributes, keyed    *)
(* by prefix and name).  getxattr answers -ENOENT for a missing object     *)
(* and -ENODATA for a missing attribute (cls_lock.cc:57-64 tells the two   *)
(* apart), setxattr creates the object, and cls_cxx_remove removes the     *)
(* object with all its attributes.  Each store call takes effect at once.  *)
(* Every method is one atomic step: the host serialises the calls on one   *)
(* object.  One store call of a request may fail (the input io).  The     *)
(* specification SpecConc runs lock_obj in steps instead, so that calls    *)
(* on different objects interleave around the mutex of the bid table.      *)
(***************************************************************************)
EXTENDS Integers, FiniteSets, Sequences, TLC

VARIABLES now,      \* ceph_clock_now(), in whole seconds
          exists,   \* exists[o]: object o is in the store
          xattrs,   \* xattrs[o]: attribute key -> blob (a lock_info_t under "lock.")
          bids,     \* static ObjectBidMap bids of lock_obj
          last,     \* the last request: method, arguments that name it, outcome
          bids_mtx, \* static std::mutex bids_mtx of lock_obj: its owner
          calls     \* calls[who]: the lock call of who that runs step by step

vars == <<now, exists, xattrs, bids, last, bids_mtx, calls>>

-----------------------------------------------------------------------------
(* Bounds of the model *)

MaxTime == 3

(* ClsLockType *)
LOCK_NONE == "LOCK_NONE"
LOCK_EXCLUSIVE == "LOCK_EXCLUSIVE"
LOCK_SHARED == "LOCK_SHARED"
LOCK_EXCLUSIVE_EPHEMERAL == "LOCK_EXCLUSIVE_EPHEMERAL"
LOCK_INVALID == "LOCK_INVALID"   \* a value outside the enumeration

LOCK_FLAG_MAY_RENEW == "LOCK_FLAG_MAY_RENEW"
LOCK_FLAG_MUST_RENEW == "LOCK_FLAG_MUST_RENEW"

(* return codes: 0 and the negated errno values the methods return *)
OK == "0"
EINVAL == "-EINVAL"
EBUSY == "-EBUSY"
EEXIST == "-EEXIST"
ENOENT == "-ENOENT"
ENODATA == "-ENODATA"
EIO == "-EIO"
ABORT == "abort"   \* a failed ceph_assert ends the process

cls_lock_is_valid(t) == t \in {LOCK_EXCLUSIVE, LOCK_SHARED, LOCK_EXCLUSIVE_EPHEMERAL}

cls_lock_is_exclusive(t) == t \in {LOCK_EXCLUSIVE, LOCK_EXCLUSIVE_EPHEMERAL}

cls_lock_is_ephemeral(t) == t = LOCK_EXCLUSIVE_EPHEMERAL

-----------------------------------------------------------------------------
(* Values *)

NoLockers == [i \in {} |-> 0]

NoAttrs == [n \in {} |-> 0]

(* the attribute key of a lock name: LOCK_PREFIX, then the name *)
LOCK_PREFIX == "lock."

Key(name) == <<LOCK_PREFIX, name>>

(* lock_info_t(): the default record *)
lock_info_t == [lock_type |-> LOCK_NONE, tag |-> "", lockers |-> NoLockers]

(* locker_id_t: the pair (locker, cookie) *)
locker_id_t(locker, cookie) == <<locker, cookie>>

(* entity_addr_t of a request origin, and set_type(TYPE_LEGACY) *)
TYPE_LEGACY == "legacy"
TYPE_MSGR2 == "msgr2"

entity_addr_t(type, host) == [type |-> type, host |-> host]

set_type(addr, type) == [addr EXCEPT !.type = type]

(* locker_info_t(expiration, addr, description) *)
locker_info_t(expiration, addr, description) ==
    [expiration |-> expiration, addr |-> addr, description |-> description]

(* f without key k; f with key k set to v *)
Erase(f, k) == [x \in (DOMAIN f) \ {k} |-> f[x]]

Put(f, k, v) == [x \in (DOMAIN f) \cup {k} |-> IF x = k THEN v ELSE f[x]]

-----------------------------------------------------------------------------
(* The object store *)

(* one store call of the request named by io fails *)
IoOk == "ok"
IoGet == "getxattr"
IoSet == "setxattr"
IoRemove == "remove"
IoList == "getxattrs"

(* The store as a pair, so that a helper can hand back the store it leaves *)
Store(ex, xa) == [exists |-> ex, xattrs |-> xa]

(* cls_cxx_remove: the object goes, with every attribute on it *)
cls_cxx_remove(st, o) ==
    Store([st.exists EXCEPT ![o] = FALSE], [st.xattrs EXCEPT ![o] = NoAttrs])

(* cls_cxx_setxattr of "lock.<name>": creates the object when it is missing *)
cls_cxx_setxattr(st, o, name, lock) ==
    Store([st.exists EXCEPT ![o] = TRUE],
          [st.xattrs EXCEPT ![o] = Put(st.xattrs[o], Key(name), lock)])

(* clean_lock: r and the store it leaves *)
clean_lock(st, o, io) ==
    IF io = IoRemove
    THEN [r |-> EIO, store |-> st]
    ELSE [r |-> OK, store |-> cls_cxx_remove(st, o)]

(* write_lock: r and the store it leaves *)
write_lock(st, o, name, lock, io) ==
    IF io = IoSet
    THEN [r |-> EIO, store |-> st]
    ELSE [r |-> OK, store |-> cls_cxx_setxattr(st, o, name, lock)]

(* the test of line 83 without is_zero(): expiration zero counts as past *)
Expired_ZeroIsPast(info, t) == info.expiration < t

(* the trim loop of read_lock: the lockers that stay at time t *)
Expired(info, t) == info.expiration # 0 /\ info.expiration < t

(* the trim loop that erases nothing *)
TrimExpired_KeepsAll(lockers, t) == lockers

TrimExpired(lockers, t) ==
    [id \in {i \in DOMAIN lockers : ~Expired(lockers[i], t)} |-> lockers[id]]

(* read_lock without the clean-up of an emptied ephemeral record (lines 91-96) *)
read_lock_NoClean(st, o, name, t, io) ==
    IF io = IoGet
    THEN [r |-> EIO, lock |-> lock_info_t, store |-> st]
    ELSE IF ~st.exists[o]
    THEN [r |-> ENOENT, lock |-> lock_info_t, store |-> st]
    ELSE IF Key(name) \notin DOMAIN st.xattrs[o]
    THEN [r |-> OK, lock |-> lock_info_t, store |-> st]
    ELSE LET decoded == st.xattrs[o][Key(name)]
         IN  [r |-> OK,
              lock |-> [decoded EXCEPT !.lockers = TrimExpired(decoded.lockers, t)],
              store |-> st]

(* read_lock that writes the swept record back (a write_lock after line 89) *)
read_lock_WritesBack(st, o, name, t, io) ==
    IF io = IoGet
    THEN [r |-> EIO, lock |-> lock_info_t, store |-> st]
    ELSE IF ~st.exists[o]
    THEN [r |-> ENOENT, lock |-> lock_info_t, store |-> st]
    ELSE IF Key(name) \notin DOMAIN st.xattrs[o]
    THEN [r |-> OK, lock |-> lock_info_t, store |-> st]
    ELSE LET decoded == st.xattrs[o][Key(name)]
             lock == [decoded EXCEPT !.lockers = TrimExpired(decoded.lockers, t)]
         IN  IF lock.lockers = NoLockers /\ cls_lock_is_ephemeral(lock.lock_type)
             THEN [r |-> OK, lock |-> lock, store |-> clean_lock(st, o, io).store]
             ELSE [r |-> OK, lock |-> lock,
                   store |-> write_lock(st, o, name, lock, IoOk).store]

(* read_lock: r, *lock and the store it leaves *)
read_lock(st, o, name, t, io) ==
    IF io = IoGet
    THEN [r |-> EIO, lock |-> lock_info_t, store |-> st]
    ELSE IF ~st.exists[o]
    THEN [r |-> ENOENT, lock |-> lock_info_t, store |-> st]
    ELSE IF Key(name) \notin DOMAIN st.xattrs[o]
    THEN [r |-> OK, lock |-> lock_info_t, store |-> st]
    ELSE LET decoded == st.xattrs[o][Key(name)]
             lock == [decoded EXCEPT !.lockers = TrimExpired(decoded.lockers, t)]
         IN  IF lock.lockers = NoLockers /\ cls_lock_is_ephemeral(lock.lock_type)
             THEN [r |-> OK, lock |-> lock, store |-> clean_lock(st, o, io).store]
             ELSE [r |-> OK, lock |-> lock, store |-> st]

-----------------------------------------------------------------------------
(* The bid table of lock_obj: object id -> lock name -> requester -> BidRecord *)

BidRecord(amount, expiration) == [amount |-> amount, expiration |-> expiration]

NoBids == [x \in {} |-> 0]

(* the ClientBidMap of (o, name); empty when none was ever emplaced *)
ClientBidMap(b, o, name) ==
    IF o \in DOMAIN b /\ name \in DOMAIN b[o] THEN b[o][name] ELSE NoBids

(* lines 230-248: emplace the two outer maps, then insert or replace the bid *)
emplace(m, k, v) == IF k \in DOMAIN m THEN m ELSE Put(m, k, v)

(* the registration that keeps the earlier bid of the requester (lines *)
(* 246-248 dropped)                                                   *)
UpdateBid_KeepsEarlier(b, o, name, who, bid_rec) ==
    LET b1 == emplace(b, o, NoBids)
        lock_bid_map == emplace(b1[o], name, NoBids)
        client_bid_map == emplace(lock_bid_map[name], who, bid_rec)
    IN  Put(b1, o, Put(lock_bid_map, name, client_bid_map))

UpdateBid(b, o, name, who, bid_rec) ==
    LET b1 == emplace(b, o, NoBids)
        lock_bid_map == emplace(b1[o], name, NoBids)
        client_bid_map == Put(lock_bid_map[name], who, bid_rec)
    IN  Put(b1, o, Put(lock_bid_map, name, client_bid_map))

(* lines 314-326: the scan erases the bids with expiration < now ... *)
PurgeBids(client_bid_map, t) ==
    [c \in {x \in DOMAIN client_bid_map : ~(client_bid_map[x].expiration < t)}
        |-> client_bid_map[c]]

(* the lowest amount with the expired bids counted too (line 317 dropped) *)
best_bid_CountsExpired(client_bid_map, bid_amount, t) ==
    LET amounts == {bid_amount} \cup
                   {client_bid_map[c].amount : c \in DOMAIN client_bid_map}
    IN  CHOOSE a \in amounts : \A x \in amounts : a <= x

(* ... and keeps the lowest amount among the others and bid_amount *)
best_bid(client_bid_map, bid_amount, t) ==
    LET amounts == {bid_amount} \cup
                   {client_bid_map[c].amount : c \in DOMAIN PurgeBids(client_bid_map, t)}
    IN  CHOOSE a \in amounts : \A x \in amounts : a <= x

(* a scan that walks every ClientBidMap of the table, not only the one *)
(* client_bid_map_ptr points to                                       *)
ScanBids_EveryMap(b, o, name, t) ==
    [x \in DOMAIN b |-> [y \in DOMAIN b[x] |-> PurgeBids(b[x][y], t)]]

(* lines 314-326 on the map of (o, name), the one client_bid_map_ptr points to *)
ScanBids(b, o, name, t) ==
    Put(b, o, Put(b[o], name, PurgeBids(b[o][name], t)))

-----------------------------------------------------------------------------
(* lock_obj.  op is the decoded cls_lock_lock_op (name, type, duration,      *)
(* description, flags, cookie, tag, bid_amount, bid_duration), origin the    *)
(* request origin [name, addr].  The result is the return code r, the place  *)
(* where the function returned (why), and the store and bid table it leaves. *)

Ret(r, why, st, b) == [r |-> r, why |-> why, store |-> st, bids |-> b]

(* lines 335-357: build the record and persist it *)
GrantLock(st, b, t, o, origin, op, lockers, is_renewing, io) ==
    LET expiration == IF op.duration # 0 THEN t + op.duration ELSE 0
        info == locker_info_t(expiration, set_type(origin.addr, TYPE_LEGACY),
                              op.description)
        id == locker_id_t(origin.name, op.cookie)
        linfo == [lock_type |-> op.type, tag |-> op.tag,
                  lockers |-> Put(lockers, id, info)]
        wr == write_lock(st, o, op.name, linfo, io)
    IN  IF wr.r # OK
        THEN Ret(wr.r, "write_lock", wr.store, b)
        ELSE Ret(OK, IF is_renewing THEN "renew" ELSE "grant", wr.store, b)

(* the auction that lets every bid win (line 328 never true) *)
Auction_EveryBidWins(st, b, t, o, origin, op, lockers, is_renewing, io) ==
    IF ~is_renewing /\ op.bid_amount >= 0
    THEN GrantLock(st, ScanBids(b, o, op.name, t), t, o, origin, op, lockers,
                   is_renewing, io)
    ELSE GrantLock(st, b, t, o, origin, op, lockers, is_renewing, io)

(* the auction that only a strictly lowest bid wins (line 322 with <=) *)
Auction_TieLoses(st, b, t, o, origin, op, lockers, is_renewing, io) ==
    IF ~is_renewing /\ op.bid_amount >= 0
    THEN LET b2 == ScanBids(b, o, op.name, t)
             rivals == {c \in DOMAIN b2[o][op.name] \ {origin.name} :
                           b2[o][op.name][c].amount <= op.bid_amount}
         IN  IF rivals # {}
             THEN Ret(EBUSY, "lower_bid", st, b2)
             ELSE GrantLock(st, b2, t, o, origin, op, lockers, is_renewing, io)
    ELSE GrantLock(st, b, t, o, origin, op, lockers, is_renewing, io)

(* the auction that a renewal goes through too (line 311 without *)
(* !is_renewing)                                                *)
Auction_RenewalsBidToo(st, b, t, o, origin, op, lockers, is_renewing, io) ==
    IF op.bid_amount >= 0
    THEN LET b2 == ScanBids(b, o, op.name, t)
         IN  IF op.bid_amount # best_bid(b[o][op.name], op.bid_amount, t)
             THEN Ret(EBUSY, "lower_bid", st, b2)
             ELSE GrantLock(st, b2, t, o, origin, op, lockers, is_renewing, io)
    ELSE GrantLock(st, b, t, o, origin, op, lockers, is_renewing, io)

(* lines 309-333: the auction, for a bid that does not renew *)
Auction(st, b, t, o, origin, op, lockers, is_renewing, io) ==
    IF ~is_renewing /\ op.bid_amount >= 0
    THEN LET b2 == ScanBids(b, o, op.name, t)
         IN  IF op.bid_amount # best_bid(b[o][op.name], op.bid_amount, t)
             THEN Ret(EBUSY, "lower_bid", st, b2)
             ELSE GrantLock(st, b2, t, o, origin, op, lockers, is_renewing, io)
    ELSE GrantLock(st, b, t, o, origin, op, lockers, is_renewing, io)

(* the capacity check that a renewal skips (lines 290-307 under *)
(* !is_renewing)                                               *)
Capacity_RenewalPasses(st, b, t, o, origin, op, lockers, existing_lock_type, is_renewing, io) ==
    IF ~is_renewing /\ lockers # NoLockers /\ cls_lock_is_exclusive(op.type)
    THEN Ret(EBUSY, "exclusive", st, b)
    ELSE IF ~is_renewing /\ lockers # NoLockers /\ existing_lock_type # op.type
    THEN Ret(EBUSY, "lock_type", st, b)
    ELSE Auction(st, b, t, o, origin, op, lockers, is_renewing, io)

(* the capacity check without its exclusive branch (lines 291-301 dropped) *)
Capacity_NoExclusive(st, b, t, o, origin, op, lockers, existing_lock_type, is_renewing, io) ==
    IF lockers # NoLockers /\ existing_lock_type # op.type
    THEN Ret(EBUSY, "lock_type", st, b)
    ELSE Auction(st, b, t, o, origin, op, lockers, is_renewing, io)

(* the capacity check without its lock type branch (lines 303-306 dropped) *)
Capacity_NoLockType(st, b, t, o, origin, op, lockers, existing_lock_type, is_renewing, io) ==
    IF lockers # NoLockers /\ cls_lock_is_exclusive(op.type)
    THEN Ret(EBUSY, "exclusive", st, b)
    ELSE Auction(st, b, t, o, origin, op, lockers, is_renewing, io)

(* lines 290-307: the lockers that remain decide *)
Capacity(st, b, t, o, origin, op, lockers, existing_lock_type, is_renewing, io) ==
    IF lockers # NoLockers /\ cls_lock_is_exclusive(op.type)
    THEN Ret(EBUSY, "exclusive", st, b)
    ELSE IF lockers # NoLockers /\ existing_lock_type # op.type
    THEN Ret(EBUSY, "lock_type", st, b)
    ELSE Auction(st, b, t, o, origin, op, lockers, is_renewing, io)

(* the evaluation that persists the erase of line 283 when the renewal is *)
(* rejected afterwards                                                   *)
Evaluate_RejectionDropsEntry(st, b, t, o, origin, op, io) ==
    LET fail_if_exists == LOCK_FLAG_MAY_RENEW \notin op.flags
        fail_if_does_not_exist == LOCK_FLAG_MUST_RENEW \in op.flags
        rd == read_lock(st, o, op.name, t, io)
        linfo == rd.lock
        lockers == linfo.lockers
        id == locker_id_t(origin.name, op.cookie)
    IN  IF rd.r # OK /\ rd.r # ENOENT
        THEN Ret(rd.r, "read_lock", rd.store, b)
        ELSE IF lockers # NoLockers /\ op.tag # linfo.tag
        THEN Ret(EBUSY, "tag", rd.store, b)
        ELSE IF id \in DOMAIN lockers
        THEN IF fail_if_exists /\ ~fail_if_does_not_exist
             THEN Ret(EEXIST, "exists", rd.store, b)
             ELSE LET res == Capacity(rd.store, b, t, o, origin, op, Erase(lockers, id),
                                      linfo.lock_type, TRUE, io)
                      erased == [linfo EXCEPT !.lockers = Erase(lockers, id)]
                  IN  IF res.r = OK
                      THEN res
                      ELSE Ret(res.r, res.why,
                               write_lock(res.store, o, op.name, erased, IoOk).store,
                               res.bids)
        ELSE IF fail_if_does_not_exist
        THEN Ret(ENOENT, "no_lock_to_renew", rd.store, b)
        ELSE Capacity(rd.store, b, t, o, origin, op, lockers, linfo.lock_type,
                      FALSE, io)

(* the evaluation that answers busy where lines 280 and 287 answer *)
(* -EEXIST and -ENOENT                                             *)
Evaluate_AllBusy(st, b, t, o, origin, op, io) ==
    LET fail_if_exists == LOCK_FLAG_MAY_RENEW \notin op.flags
        fail_if_does_not_exist == LOCK_FLAG_MUST_RENEW \in op.flags
        rd == read_lock(st, o, op.name, t, io)
        linfo == rd.lock
        lockers == linfo.lockers
        id == locker_id_t(origin.name, op.cookie)
    IN  IF rd.r # OK /\ rd.r # ENOENT
        THEN Ret(rd.r, "read_lock", rd.store, b)
        ELSE IF lockers # NoLockers /\ op.tag # linfo.tag
        THEN Ret(EBUSY, "tag", rd.store, b)
        ELSE IF id \in DOMAIN lockers
        THEN IF fail_if_exists /\ ~fail_if_does_not_exist
             THEN Ret(EBUSY, "exists", rd.store, b)
             ELSE Capacity(rd.store, b, t, o, origin, op, Erase(lockers, id),
                           linfo.lock_type, TRUE, io)
        ELSE IF fail_if_does_not_exist
        THEN Ret(EBUSY, "no_lock_to_renew", rd.store, b)
        ELSE Capacity(rd.store, b, t, o, origin, op, lockers, linfo.lock_type,
                      FALSE, io)

(* the evaluation whose existence check looks at the identity alone: a     *)
(* locker of the requester with any cookie counts as the entry (line 275) *)
Evaluate_AnyCookieExists(st, b, t, o, origin, op, io) ==
    LET fail_if_exists == LOCK_FLAG_MAY_RENEW \notin op.flags
        fail_if_does_not_exist == LOCK_FLAG_MUST_RENEW \in op.flags
        rd == read_lock(st, o, op.name, t, io)
        linfo == rd.lock
        lockers == linfo.lockers
        id == locker_id_t(origin.name, op.cookie)
        found == \E x \in DOMAIN lockers : x[1] = origin.name
    IN  IF rd.r # OK /\ rd.r # ENOENT
        THEN Ret(rd.r, "read_lock", rd.store, b)
        ELSE IF lockers # NoLockers /\ op.tag # linfo.tag
        THEN Ret(EBUSY, "tag", rd.store, b)
        ELSE IF found
        THEN IF fail_if_exists /\ ~fail_if_does_not_exist
             THEN Ret(EEXIST, "exists", rd.store, b)
             ELSE Capacity(rd.store, b, t, o, origin, op, Erase(lockers, id),
                           linfo.lock_type, TRUE, io)
        ELSE IF fail_if_does_not_exist
        THEN Ret(ENOENT, "no_lock_to_renew", rd.store, b)
        ELSE Capacity(rd.store, b, t, o, origin, op, lockers, linfo.lock_type,
                      FALSE, io)

(* the evaluation that lets a must-renew request of an absent id go on to *)
(* the capacity check (lines 285-288 dropped)                             *)
Evaluate_MustRenewGoesOn(st, b, t, o, origin, op, io) ==
    LET fail_if_exists == LOCK_FLAG_MAY_RENEW \notin op.flags
        fail_if_does_not_exist == LOCK_FLAG_MUST_RENEW \in op.flags
        rd == read_lock(st, o, op.name, t, io)
        linfo == rd.lock
        lockers == linfo.lockers
        id == locker_id_t(origin.name, op.cookie)
    IN  IF rd.r # OK /\ rd.r # ENOENT
        THEN Ret(rd.r, "read_lock", rd.store, b)
        ELSE IF lockers # NoLockers /\ op.tag # linfo.tag
        THEN Ret(EBUSY, "tag", rd.store, b)
        ELSE IF id \in DOMAIN lockers
        THEN IF fail_if_exists /\ ~fail_if_does_not_exist
             THEN Ret(EEXIST, "exists", rd.store, b)
             ELSE Capacity(rd.store, b, t, o, origin, op, Erase(lockers, id),
                           linfo.lock_type, TRUE, io)
        ELSE Capacity(rd.store, b, t, o, origin, op, lockers, linfo.lock_type,
                      FALSE, io)

(* the evaluation with the tag check after the existence checks (lines *)
(* 267-270 moved behind line 288)                                     *)
Evaluate_ExistenceBeforeTag(st, b, t, o, origin, op, io) ==
    LET fail_if_exists == LOCK_FLAG_MAY_RENEW \notin op.flags
        fail_if_does_not_exist == LOCK_FLAG_MUST_RENEW \in op.flags
        rd == read_lock(st, o, op.name, t, io)
        linfo == rd.lock
        lockers == linfo.lockers
        id == locker_id_t(origin.name, op.cookie)
    IN  IF rd.r # OK /\ rd.r # ENOENT
        THEN Ret(rd.r, "read_lock", rd.store, b)
        ELSE IF id \in DOMAIN lockers /\ fail_if_exists /\ ~fail_if_does_not_exist
        THEN Ret(EEXIST, "exists", rd.store, b)
        ELSE IF id \notin DOMAIN lockers /\ fail_if_does_not_exist
        THEN Ret(ENOENT, "no_lock_to_renew", rd.store, b)
        ELSE IF lockers # NoLockers /\ op.tag # linfo.tag
        THEN Ret(EBUSY, "tag", rd.store, b)
        ELSE IF id \in DOMAIN lockers
        THEN Capacity(rd.store, b, t, o, origin, op, Erase(lockers, id),
                      linfo.lock_type, TRUE, io)
        ELSE Capacity(rd.store, b, t, o, origin, op, lockers, linfo.lock_type,
                      FALSE, io)

(* the evaluation that leaves the renewing caller's old entry among the *)
(* lockers the capacity check sees (line 286 dropped)                   *)
Evaluate_KeepsOldEntry(st, b, t, o, origin, op, io) ==
    LET fail_if_exists == LOCK_FLAG_MAY_RENEW \notin op.flags
        fail_if_does_not_exist == LOCK_FLAG_MUST_RENEW \in op.flags
        rd == read_lock(st, o, op.name, t, io)
        linfo == rd.lock
        lockers == linfo.lockers
        id == locker_id_t(origin.name, op.cookie)
    IN  IF rd.r # OK /\ rd.r # ENOENT
        THEN Ret(rd.r, "read_lock", rd.store, b)
        ELSE IF lockers # NoLockers /\ op.tag # linfo.tag
        THEN Ret(EBUSY, "tag", rd.store, b)
        ELSE IF id \in DOMAIN lockers
        THEN IF fail_if_exists /\ ~fail_if_does_not_exist
             THEN Ret(EEXIST, "exists", rd.store, b)
             ELSE Capacity(rd.store, b, t, o, origin, op, lockers,
                           linfo.lock_type, TRUE, io)
        ELSE IF fail_if_does_not_exist
        THEN Ret(ENOENT, "no_lock_to_renew", rd.store, b)
        ELSE Capacity(rd.store, b, t, o, origin, op, lockers, linfo.lock_type,
                      FALSE, io)

(* the evaluation without the tag check (lines 267-270 dropped) *)
Evaluate_NoTagCheck(st, b, t, o, origin, op, io) ==
    LET fail_if_exists == LOCK_FLAG_MAY_RENEW \notin op.flags
        fail_if_does_not_exist == LOCK_FLAG_MUST_RENEW \in op.flags
        rd == read_lock(st, o, op.name, t, io)
        linfo == rd.lock
        lockers == linfo.lockers
        id == locker_id_t(origin.name, op.cookie)
    IN  IF rd.r # OK /\ rd.r # ENOENT
        THEN Ret(rd.r, "read_lock", rd.store, b)
        ELSE IF id \in DOMAIN lockers
        THEN IF fail_if_exists /\ ~fail_if_does_not_exist
             THEN Ret(EEXIST, "exists", rd.store, b)
             ELSE Capacity(rd.store, b, t, o, origin, op, Erase(lockers, id),
                           linfo.lock_type, TRUE, io)
        ELSE IF fail_if_does_not_exist
        THEN Ret(ENOENT, "no_lock_to_renew", rd.store, b)
        ELSE Capacity(rd.store, b, t, o, origin, op, lockers, linfo.lock_type,
                      FALSE, io)

(* lines 251-288: read, tag check, existence checks *)
Evaluate(st, b, t, o, origin, op, io) ==
    LET fail_if_exists == LOCK_FLAG_MAY_RENEW \notin op.flags
        fail_if_does_not_exist == LOCK_FLAG_MUST_RENEW \in op.flags
        rd == read_lock(st, o, op.name, t, io)
        linfo == rd.lock
        lockers == linfo.lockers
        id == locker_id_t(origin.name, op.cookie)
    IN  IF rd.r # OK /\ rd.r # ENOENT
        THEN Ret(rd.r, "read_lock", rd.store, b)
        ELSE IF lockers # NoLockers /\ op.tag # linfo.tag
        THEN Ret(EBUSY, "tag", rd.store, b)
        ELSE IF id \in DOMAIN lockers
        THEN IF fail_if_exists /\ ~fail_if_does_not_exist
             THEN Ret(EEXIST, "exists", rd.store, b)
             ELSE Capacity(rd.store, b, t, o, origin, op, Erase(lockers, id),
                           linfo.lock_type, TRUE, io)
        ELSE IF fail_if_does_not_exist
        THEN Ret(ENOENT, "no_lock_to_renew", rd.store, b)
        ELSE Capacity(rd.store, b, t, o, origin, op, lockers, linfo.lock_type,
                      FALSE, io)

(* lock_obj that registers the amount of every call, a negative one too *)
(* (lines 205-249 outside the test of line 204)                        *)
lock_obj_AlwaysRegisters(st, b, t, o, origin, op, io) ==
    LET exclusive == cls_lock_is_exclusive(op.type)
        fail_if_exists == LOCK_FLAG_MAY_RENEW \notin op.flags
        fail_if_does_not_exist == LOCK_FLAG_MUST_RENEW \in op.flags
    IN  IF ~cls_lock_is_valid(op.type)
        THEN Ret(EINVAL, "lock_type_invalid", st, b)
        ELSE IF op.name = ""
        THEN Ret(EINVAL, "name_empty", st, b)
        ELSE IF ~fail_if_exists /\ fail_if_does_not_exist
        THEN Ret(EINVAL, "flags", st, b)
        ELSE IF op.bid_amount >= 0 /\ ~exclusive
        THEN Ret(EINVAL, "bid_not_exclusive", st, b)
        ELSE Evaluate(st,
                      UpdateBid(b, o, op.name, origin.name,
                                BidRecord(op.bid_amount, t + op.bid_duration)),
                      t, o, origin, op, io)

(* lock_obj that registers the bid before any validation (lines 203-249 *)
(* moved ahead of line 177)                                            *)
lock_obj_BidBeforeChecks(st, b, t, o, origin, op, io) ==
    LET exclusive == cls_lock_is_exclusive(op.type)
        fail_if_exists == LOCK_FLAG_MAY_RENEW \notin op.flags
        fail_if_does_not_exist == LOCK_FLAG_MUST_RENEW \in op.flags
        b1 == IF op.bid_amount >= 0
              THEN UpdateBid(b, o, op.name, origin.name,
                             BidRecord(op.bid_amount, t + op.bid_duration))
              ELSE b
    IN  IF ~cls_lock_is_valid(op.type)
        THEN Ret(EINVAL, "lock_type_invalid", st, b1)
        ELSE IF op.name = ""
        THEN Ret(EINVAL, "name_empty", st, b1)
        ELSE IF ~fail_if_exists /\ fail_if_does_not_exist
        THEN Ret(EINVAL, "flags", st, b1)
        ELSE IF op.bid_amount >= 0 /\ ~exclusive
        THEN Ret(EINVAL, "bid_not_exclusive", st, b1)
        ELSE Evaluate(st, b1, t, o, origin, op, io)

(* lines 165-249: validation and the registration of the bid *)
lock_obj(st, b, t, o, origin, op, io) ==
    LET exclusive == cls_lock_is_exclusive(op.type)
        fail_if_exists == LOCK_FLAG_MAY_RENEW \notin op.flags
        fail_if_does_not_exist == LOCK_FLAG_MUST_RENEW \in op.flags
    IN  IF ~cls_lock_is_valid(op.type)
        THEN Ret(EINVAL, "lock_type_invalid", st, b)
        ELSE IF op.name = ""
        THEN Ret(EINVAL, "name_empty", st, b)
        ELSE IF ~fail_if_exists /\ fail_if_does_not_exist
        THEN Ret(EINVAL, "flags", st, b)
        ELSE IF op.bid_amount >= 0 /\ ~exclusive
        THEN Ret(EINVAL, "bid_not_exclusive", st, b)
        ELSE LET b1 == IF op.bid_amount >= 0
                       THEN UpdateBid(b, o, op.name, origin.name,
                                      BidRecord(op.bid_amount, t + op.bid_duration))
                       ELSE b
             IN  Evaluate(st, b1, t, o, origin, op, io)

(* remove_lock that deletes the attribute of any record it empties *)
remove_lock_DeletesWhenEmpty(st, t, o, name, locker, cookie, io) ==
    LET rd == read_lock(st, o, name, t, io)
        lockers == rd.lock.lockers
        id == locker_id_t(locker, cookie)
    IN  IF rd.r # OK
        THEN [r |-> rd.r, why |-> "read_lock", store |-> rd.store]
        ELSE IF id \notin DOMAIN lockers
        THEN [r |-> ENOENT, why |-> "no_such_key", store |-> rd.store]
        ELSE IF cls_lock_is_ephemeral(rd.lock.lock_type)
        THEN LET cl == clean_lock(rd.store, o, io)
             IN  [r |-> cl.r, why |-> "clean_lock", store |-> cl.store]
        ELSE IF Erase(lockers, id) = NoLockers
        THEN [r |-> OK, why |-> "write_lock",
              store |-> Store(rd.store.exists,
                              [rd.store.xattrs EXCEPT
                                  ![o] = Erase(rd.store.xattrs[o], Key(name))])]
        ELSE LET wr == write_lock(rd.store, o, name,
                                  [rd.lock EXCEPT !.lockers = Erase(lockers, id)], io)
             IN  [r |-> wr.r, why |-> "write_lock", store |-> wr.store]

(* remove_lock without lines 420-425: an ephemeral record is rewritten as *)
(* any other                                                             *)
remove_lock_RewritesEphemeral(st, t, o, name, locker, cookie, io) ==
    LET rd == read_lock(st, o, name, t, io)
        id == locker_id_t(locker, cookie)
    IN  IF rd.r # OK
        THEN [r |-> rd.r, why |-> "read_lock", store |-> rd.store]
        ELSE IF id \notin DOMAIN rd.lock.lockers
        THEN [r |-> ENOENT, why |-> "no_such_key", store |-> rd.store]
        ELSE LET wr == write_lock(rd.store, o, name,
                                  [rd.lock EXCEPT !.lockers = Erase(rd.lock.lockers, id)],
                                  io)
             IN  [r |-> wr.r, why |-> "write_lock", store |-> wr.store]

(* remove_lock that erases every locker of the record (line 418 as a clear) *)
remove_lock_ErasesAll(st, t, o, name, locker, cookie, io) ==
    LET rd == read_lock(st, o, name, t, io)
        id == locker_id_t(locker, cookie)
    IN  IF rd.r # OK
        THEN [r |-> rd.r, why |-> "read_lock", store |-> rd.store]
        ELSE IF id \notin DOMAIN rd.lock.lockers
        THEN [r |-> ENOENT, why |-> "no_such_key", store |-> rd.store]
        ELSE IF cls_lock_is_ephemeral(rd.lock.lock_type)
        THEN LET cl == clean_lock(rd.store, o, io)
             IN  [r |-> cl.r, why |-> "clean_lock", store |-> cl.store]
        ELSE LET wr == write_lock(rd.store, o, name,
                                  [rd.lock EXCEPT !.lockers = NoLockers], io)
             IN  [r |-> wr.r, why |-> "write_lock", store |-> wr.store]

(* remove_lock that deletes only the attribute of the lock name when the *)
(* record is ephemeral                                                   *)
remove_lock_AttributeOnly(st, t, o, name, locker, cookie, io) ==
    LET rd == read_lock(st, o, name, t, io)
        id == locker_id_t(locker, cookie)
    IN  IF rd.r # OK
        THEN [r |-> rd.r, why |-> "read_lock", store |-> rd.store]
        ELSE IF id \notin DOMAIN rd.lock.lockers
        THEN [r |-> ENOENT, why |-> "no_such_key", store |-> rd.store]
        ELSE IF cls_lock_is_ephemeral(rd.lock.lock_type)
        THEN [r |-> OK, why |-> "clean_lock",
              store |-> Store(rd.store.exists,
                              [rd.store.xattrs EXCEPT
                                  ![o] = Erase(rd.store.xattrs[o], Key(name))])]
        ELSE LET wr == write_lock(rd.store, o, name,
                                  [rd.lock EXCEPT !.lockers = Erase(rd.lock.lockers, id)],
                                  io)
             IN  [r |-> wr.r, why |-> "write_lock", store |-> wr.store]

(* remove_lock: unlock_op calls it with the caller's name, break_lock with op.locker *)
remove_lock(st, t, o, name, locker, cookie, io) ==
    LET rd == read_lock(st, o, name, t, io)
        lockers == rd.lock.lockers
        id == locker_id_t(locker, cookie)
    IN  IF rd.r # OK
        THEN [r |-> rd.r, why |-> "read_lock", store |-> rd.store]
        ELSE IF id \notin DOMAIN lockers
        THEN [r |-> ENOENT, why |-> "no_such_key", store |-> rd.store]
        ELSE IF cls_lock_is_ephemeral(rd.lock.lock_type)
        THEN IF Erase(lockers, id) # NoLockers
             THEN [r |-> ABORT, why |-> "ceph_assert", store |-> rd.store]
             ELSE LET cl == clean_lock(rd.store, o, io)
                  IN  [r |-> cl.r, why |-> "clean_lock", store |-> cl.store]
        ELSE LET wr == write_lock(rd.store, o, name,
                                  [rd.lock EXCEPT !.lockers = Erase(lockers, id)], io)
             IN  [r |-> wr.r, why |-> "write_lock", store |-> wr.store]

(* get_info: r, the reply and the store it leaves *)
get_info(st, t, o, name, io) ==
    LET rd == read_lock(st, o, name, t, io)
    IN  IF rd.r # OK
        THEN [r |-> rd.r, why |-> "read_lock", ret |-> lock_info_t, store |-> rd.store]
        ELSE [r |-> OK, why |-> "reply",
              ret |-> [lock_type |-> rd.lock.lock_type, tag |-> rd.lock.tag,
                       lockers |-> rd.lock.lockers],
              store |-> rd.store]

(* list_locks: the names of the attributes that start with LOCK_PREFIX *)
list_locks(st, o, io) ==
    IF io = IoList
    THEN [r |-> EIO, why |-> "getxattrs", locks |-> {}]
    ELSE IF ~st.exists[o]
    THEN [r |-> ENOENT, why |-> "getxattrs", locks |-> {}]
    ELSE [r |-> OK, why |-> "reply",
          locks |-> {attr[2] : attr \in {a \in DOMAIN st.xattrs[o] : a[1] = LOCK_PREFIX}}]

(* lines 589-634, shared by assert_locked and set_cookie (661-706): the checks *)
(* on the record that was read; op is (name, type, cookie, tag)                *)
(* the checks without the look-up of the caller's id (lines 626-634 dropped) *)
HeldCheck_AnyLocker(linfo, locker, op) ==
    IF linfo.lockers = NoLockers
    THEN "not_locked"
    ELSE IF linfo.lock_type # op.type
    THEN "lock_type"
    ELSE IF linfo.tag # op.tag
    THEN "tag"
    ELSE "held"

HeldCheck(linfo, locker, op) ==
    IF linfo.lockers = NoLockers
    THEN "not_locked"
    ELSE IF linfo.lock_type # op.type
    THEN "lock_type"
    ELSE IF linfo.tag # op.tag
    THEN "tag"
    ELSE IF locker_id_t(locker, op.cookie) \notin DOMAIN linfo.lockers
    THEN "not_locked_by_client"
    ELSE "held"

(* assert_locked: op is the decoded cls_lock_assert_op *)
assert_locked(st, t, o, locker, op, io) ==
    IF ~cls_lock_is_valid(op.type)
    THEN [r |-> EINVAL, why |-> "lock_type_invalid", store |-> st]
    ELSE IF op.name = ""
    THEN [r |-> EINVAL, why |-> "name_empty", store |-> st]
    ELSE LET rd == read_lock(st, o, op.name, t, io)
             chk == HeldCheck(rd.lock, locker, op)
         IN  IF rd.r # OK
             THEN [r |-> rd.r, why |-> "read_lock", store |-> rd.store]
             ELSE IF chk # "held"
             THEN [r |-> EBUSY, why |-> chk, store |-> rd.store]
             ELSE [r |-> OK, why |-> "held", store |-> rd.store]

(* set_cookie: op is the decoded cls_lock_set_cookie_op (with new_cookie) *)
(* a set_cookie that answers not-found at line 705, as remove_lock does at *)
(* line 416                                                               *)
set_cookie_AbsentIsNotFound(st, t, o, locker, op, io) ==
    IF ~cls_lock_is_valid(op.type)
    THEN [r |-> EINVAL, why |-> "lock_type_invalid", store |-> st]
    ELSE IF op.name = ""
    THEN [r |-> EINVAL, why |-> "name_empty", store |-> st]
    ELSE LET rd == read_lock(st, o, op.name, t, io)
             chk == HeldCheck(rd.lock, locker, op)
             id == locker_id_t(locker, op.cookie)
             new_id == locker_id_t(locker, op.new_cookie)
         IN  IF rd.r # OK
             THEN [r |-> rd.r, why |-> "read_lock", store |-> rd.store]
             ELSE IF chk # "held"
             THEN [r |-> IF id \in DOMAIN rd.lock.lockers THEN EBUSY ELSE ENOENT,
                   why |-> chk, store |-> rd.store]
             ELSE IF new_id \in DOMAIN rd.lock.lockers
             THEN [r |-> EBUSY, why |-> "cookie_in_use", store |-> rd.store]
             ELSE LET locker_info == rd.lock.lockers[id]
                      linfo == [rd.lock EXCEPT
                                   !.lockers = Put(Erase(rd.lock.lockers, id), new_id,
                                                   locker_info)]
                      wr == write_lock(rd.store, o, op.name, linfo, io)
                  IN  [r |-> wr.r, why |-> "write_lock", store |-> wr.store]

(* a set_cookie without the test of lines 708-712: the new cookie may be one *)
(* the caller already holds                                                *)
set_cookie_NoInUseCheck(st, t, o, locker, op, io) ==
    IF ~cls_lock_is_valid(op.type)
    THEN [r |-> EINVAL, why |-> "lock_type_invalid", store |-> st]
    ELSE IF op.name = ""
    THEN [r |-> EINVAL, why |-> "name_empty", store |-> st]
    ELSE LET rd == read_lock(st, o, op.name, t, io)
             chk == HeldCheck(rd.lock, locker, op)
             id == locker_id_t(locker, op.cookie)
             new_id == locker_id_t(locker, op.new_cookie)
         IN  IF rd.r # OK
             THEN [r |-> rd.r, why |-> "read_lock", store |-> rd.store]
             ELSE IF chk # "held"
             THEN [r |-> EBUSY, why |-> chk, store |-> rd.store]
             ELSE LET locker_info == rd.lock.lockers[id]
                      linfo == [rd.lock EXCEPT
                                   !.lockers = Put(Erase(rd.lock.lockers, id), new_id,
                                                   locker_info)]
                      wr == write_lock(rd.store, o, op.name, linfo, io)
                  IN  [r |-> wr.r, why |-> "write_lock", store |-> wr.store]

set_cookie(st, t, o, locker, op, io) ==
    IF ~cls_lock_is_valid(op.type)
    THEN [r |-> EINVAL, why |-> "lock_type_invalid", store |-> st]
    ELSE IF op.name = ""
    THEN [r |-> EINVAL, why |-> "name_empty", store |-> st]
    ELSE LET rd == read_lock(st, o, op.name, t, io)
             chk == HeldCheck(rd.lock, locker, op)
             id == locker_id_t(locker, op.cookie)
             new_id == locker_id_t(locker, op.new_cookie)
         IN  IF rd.r # OK
             THEN [r |-> rd.r, why |-> "read_lock", store |-> rd.store]
             ELSE IF chk # "held"
             THEN [r |-> EBUSY, why |-> chk, store |-> rd.store]
             ELSE IF new_id \in DOMAIN rd.lock.lockers
             THEN [r |-> EBUSY, why |-> "cookie_in_use", store |-> rd.store]
             ELSE LET locker_info == rd.lock.lockers[id]
                      linfo == [rd.lock EXCEPT
                                   !.lockers = Put(Erase(rd.lock.lockers, id), new_id,
                                                   locker_info)]
                      wr == write_lock(rd.store, o, op.name, linfo, io)
                  IN  [r |-> wr.r, why |-> "write_lock", store |-> wr.store]

-----------------------------------------------------------------------------
(* The requests as steps.  Each class method is one step: it applies the     *)
(* method to the store, the bid table and the clock, and records the reply.  *)

Reply(method, o, name, who, r, why, ret, locks) ==
    [method |-> method, o |-> o, name |-> name, who |-> who,
     r |-> r, why |-> why, ret |-> ret, locks |-> locks]

NoRequest == Reply("none", "", "", "", OK, "", lock_info_t, {})

(* cls_lock_lock_op, cls_lock_assert_op, cls_lock_set_cookie_op *)
cls_lock_lock_op(name, type, duration, description, flags, cookie, tag, bid_amount, bid_duration) ==
    [name |-> name, type |-> type, duration |-> duration, description |-> description,
     flags |-> flags, cookie |-> cookie, tag |-> tag, bid_amount |-> bid_amount,
     bid_duration |-> bid_duration]

cls_lock_assert_op(name, type, cookie, tag) ==
    [name |-> name, type |-> type, cookie |-> cookie, tag |-> tag]

cls_lock_set_cookie_op(name, type, cookie, tag, new_cookie) ==
    [name |-> name, type |-> type, cookie |-> cookie, tag |-> tag,
     new_cookie |-> new_cookie]

(* cls_get_request_origin: the caller's name and address *)
entity_inst_t(name, addr) == [name |-> name, addr |-> addr]

(* the origin of the requests of client who, from its own host *)
Origin(who, addr_type) == entity_inst_t(who, entity_addr_t(addr_type, who))

lock_op(o, origin, op, io) ==
    LET res == lock_obj(Store(exists, xattrs), bids, now, o, origin, op, io)
    IN  /\ exists' = res.store.exists
        /\ xattrs' = res.store.xattrs
        /\ bids' = res.bids
        /\ last' = Reply("lock", o, op.name, origin.name, res.r, res.why,
                         lock_info_t, {})
        /\ UNCHANGED <<now, bids_mtx, calls>>

(* cls_lock_unlock_op and cls_lock_break_op *)
cls_lock_unlock_op(name, cookie) == [name |-> name, cookie |-> cookie]

cls_lock_break_op(name, locker, cookie) ==
    [name |-> name, locker |-> locker, cookie |-> cookie]

(* an unlock that removes the locker with the cookie whatever its identity *)
(* (line 455 without inst.name)                                            *)
do_unlock_AnyIdentity(st, t, o, inst, op, io) ==
    LET rd == read_lock(st, o, op.name, t, IoOk)
        found == {x \in DOMAIN rd.lock.lockers : x[2] = op.cookie}
        locker == IF found = {} THEN inst.name ELSE (CHOOSE x \in found : TRUE)[1]
    IN  remove_lock(st, t, o, op.name, locker, op.cookie, io)

(* lines 452-455 of unlock_op: the locker is the origin of the request *)
do_unlock(st, t, o, inst, op, io) ==
    remove_lock(st, t, o, op.name, inst.name, op.cookie, io)

(* line 480 of break_lock: the locker is the one the request names *)
do_break_lock(st, t, o, inst, op, io) ==
    remove_lock(st, t, o, op.name, op.locker, op.cookie, io)

(* the identities a break_lock request can come from *)
Callers == {"c1", "c2", "admin"}

unlock_op(o, who, name, cookie, io) ==
    LET res == do_unlock(Store(exists, xattrs), now, o, Origin(who, TYPE_MSGR2),
                         cls_lock_unlock_op(name, cookie), io)
    IN  /\ exists' = res.store.exists
        /\ xattrs' = res.store.xattrs
        /\ last' = Reply("unlock", o, name, who, res.r, res.why, lock_info_t, {})
        /\ UNCHANGED <<now, bids, bids_mtx, calls>>

break_lock(o, name, locker, cookie, io) ==
    \E caller \in Callers :
        LET res == do_break_lock(Store(exists, xattrs), now, o,
                                 Origin(caller, TYPE_MSGR2),
                                 cls_lock_break_op(name, locker, cookie), io)
        IN  /\ exists' = res.store.exists
            /\ xattrs' = res.store.xattrs
            /\ last' = Reply("break_lock", o, name, locker, res.r, res.why,
                             lock_info_t, {})
            /\ UNCHANGED <<now, bids, bids_mtx, calls>>

get_info_op(o, name, io) ==
    LET res == get_info(Store(exists, xattrs), now, o, name, io)
    IN  /\ exists' = res.store.exists
        /\ xattrs' = res.store.xattrs
        /\ last' = Reply("get_info", o, name, "", res.r, res.why, res.ret, {})
        /\ UNCHANGED <<now, bids, bids_mtx, calls>>

list_locks_op(o, io) ==
    LET res == list_locks(Store(exists, xattrs), o, io)
    IN  /\ last' = Reply("list_locks", o, "", "", res.r, res.why, lock_info_t,
                         res.locks)
        /\ UNCHANGED <<now, exists, xattrs, bids, bids_mtx, calls>>

assert_locked_op(o, who, op, io) ==
    LET res == assert_locked(Store(exists, xattrs), now, o, who, op, io)
    IN  /\ exists' = res.store.exists
        /\ xattrs' = res.store.xattrs
        /\ last' = Reply("assert_locked", o, op.name, who, res.r, res.why,
                         lock_info_t, {})
        /\ UNCHANGED <<now, bids, bids_mtx, calls>>

set_cookie_op(o, who, op, io) ==
    LET res == set_cookie(Store(exists, xattrs), now, o, who, op, io)
    IN  /\ exists' = res.store.exists
        /\ xattrs' = res.store.xattrs
        /\ last' = Reply("set_cookie", o, op.name, who, res.r, res.why,
                         lock_info_t, {})
        /\ UNCHANGED <<now, bids, bids_mtx, calls>>

(* the clock advances *)
Tick ==
    /\ now < MaxTime
    /\ now' = now + 1
    /\ last' = NoRequest
    /\ UNCHANGED <<exists, xattrs, bids, bids_mtx, calls>>

-----------------------------------------------------------------------------
(* What the specifications share *)

(* the persisted record of (o, name), expired lockers included; the default *)
(* record when the attribute or the object is missing                       *)
Persisted(o, name) ==
    IF Key(name) \in DOMAIN xattrs[o] THEN xattrs[o][Key(name)] ELSE lock_info_t

(* the lock names that have an attribute on o *)
LockNames(o) == {attr[2] : attr \in {a \in DOMAIN xattrs[o] : a[1] = LOCK_PREFIX}}

(* an object that is there at the start carries an attribute of its user, *)
(* outside the "lock." prefix                                             *)
UserAttrs == [a \in {<<"user.", "foo">>} |-> "blob"]

(* a lock call without a bid has bid_amount -1 *)
NoBid == -1

(* the clients whose lock calls can run step by step, and the state of such *)
(* a call: where it is in lock_obj (pc), the object, the decoded request,   *)
(* the time of line 191, the locals lockers and is_renewing, the value it   *)
(* returns, and the store and the bids of its lock name when it began       *)
Requesters == {"c1", "c2"}

NoMutex == "none"

Call(pc, o, op, t, lockers, is_renewing, r, why, st0, b0) ==
    [pc |-> pc, o |-> o, op |-> op, t |-> t, lockers |-> lockers,
     is_renewing |-> is_renewing, r |-> r, why |-> why, st0 |-> st0, b0 |-> b0]

NoCall ==
    Call("idle", "", cls_lock_lock_op("", LOCK_NONE, 0, "", {}, "", "", NoBid, 0), 0,
         NoLockers, FALSE, OK, "", Store(NoAttrs, NoAttrs), NoBids)

InitStore(objs, attrs) ==
    /\ now = 1
    /\ exists \in [objs -> BOOLEAN]
    /\ xattrs = [o \in objs |-> IF exists[o] THEN attrs ELSE NoAttrs]
    /\ bids = NoBids
    /\ last = NoRequest
    /\ bids_mtx = NoMutex
    /\ calls = [who \in Requesters |-> NoCall]

Types == {LOCK_EXCLUSIVE, LOCK_SHARED, LOCK_EXCLUSIVE_EPHEMERAL}
Renewals == {{}, {LOCK_FLAG_MAY_RENEW}, {LOCK_FLAG_MUST_RENEW}}

-----------------------------------------------------------------------------
(* The specification Spec: one object, one lock name, client c1 with two     *)
(* cookies and client c2 with one, one tag, every method, no bid and no      *)
(* store failure.                                                            *)

Clients == {"c1", "c2"}
Cookies == {"k1", "k2"}
CookiesOf(who) == IF who = "c1" THEN Cookies ELSE {"k1"}
Tags == {"", "t"}
Durations == {0, 1}

Init == InitStore({"o1"}, NoAttrs)

LockOp ==
    \E who \in Clients, type \in Types, duration \in Durations, flags \in Renewals :
    \E cookie \in CookiesOf(who) :
        lock_op("o1", Origin(who, TYPE_MSGR2),
                cls_lock_lock_op("foo", type, duration, "", flags, cookie, "", NoBid, 0),
                IoOk)

UnlockOp ==
    \E who \in Clients, cookie \in Cookies : unlock_op("o1", who, "foo", cookie, IoOk)

BreakLock ==
    \E locker \in Clients, cookie \in Cookies :
        break_lock("o1", "foo", locker, cookie, IoOk)

GetInfo == get_info_op("o1", "foo", IoOk)

ListLocks == list_locks_op("o1", IoOk)

AssertLocked ==
    \E who \in Clients, type \in Types :
    \E cookie \in CookiesOf(who) :
        assert_locked_op("o1", who, cls_lock_assert_op("foo", type, cookie, ""), IoOk)

SetCookie ==
    \E who \in Clients, type \in Types :
    \E cookie \in CookiesOf(who), new_cookie \in CookiesOf(who) :
        set_cookie_op("o1", who,
                      cls_lock_set_cookie_op("foo", type, cookie, "", new_cookie), IoOk)

Next ==
    \/ LockOp
    \/ UnlockOp
    \/ BreakLock
    \/ GetInfo
    \/ ListLocks
    \/ AssertLocked
    \/ SetCookie
    \/ Tick

Spec == Init /\ [][Next]_vars

-----------------------------------------------------------------------------
(* The specification SpecBid: the auction.  Three clients bid 5, 3 and 7 for *)
(* the exclusive lock "foo" of one object, each with the same bid duration;  *)
(* they lock (with or without may-renew), unlock, and the clock advances.    *)

Bidders == {"c1", "c2", "c3"}

BidOf(who) == CASE who = "c1" -> 5 [] who = "c2" -> 3 [] who = "c3" -> 7

BidDuration == 1

BidLock ==
    \E who \in Bidders, type \in {LOCK_EXCLUSIVE, LOCK_EXCLUSIVE_EPHEMERAL} :
    \E duration \in Durations, flags \in {{}, {LOCK_FLAG_MAY_RENEW}} :
        lock_op("o1", Origin(who, TYPE_MSGR2),
                cls_lock_lock_op("foo", type, duration, "", flags, "k1", "",
                                 BidOf(who), BidDuration),
                IoOk)

BidUnlock == \E who \in Bidders : unlock_op("o1", who, "foo", "k1", IoOk)

NextBid ==
    \/ BidLock
    \/ BidUnlock
    \/ Tick

SpecBid == Init /\ [][NextBid]_vars

-----------------------------------------------------------------------------
(* The specification SpecTag: two tags.  Two clients lock "foo" with either  *)
(* tag, any kind and any renewal flag, unlock, and c1 rebinds its cookie.    *)

TagLock ==
    \E who \in Clients, type \in Types, duration \in Durations, flags \in Renewals :
    \E tag \in Tags :
        lock_op("o1", Origin(who, TYPE_MSGR2),
                cls_lock_lock_op("foo", type, duration, "", flags, "k1", tag, NoBid, 0),
                IoOk)

TagUnlock == \E who \in Clients : unlock_op("o1", who, "foo", "k1", IoOk)

TagSetCookie ==
    \E type \in Types, tag \in Tags, cookie \in Cookies, new_cookie \in Cookies :
        set_cookie_op("o1", "c1",
                      cls_lock_set_cookie_op("foo", type, cookie, tag, new_cookie), IoOk)

NextTag ==
    \/ TagLock
    \/ TagUnlock
    \/ TagSetCookie
    \/ Tick

SpecTag == Init /\ [][NextTag]_vars

-----------------------------------------------------------------------------
(* The specification SpecLive: an abandoned lock.  Client c1 takes the lock  *)
(* "foo" once, with a duration that is not zero, and never comes back; the   *)
(* clock advances; client c2 asks for the exclusive lock, with any tag, as   *)
(* long as c1's entry is in the record.  The clock is fair, and so is c2.    *)

(* the grant can run out within the time the model covers *)
CanRunOut(duration) == duration # 0 /\ now + duration < MaxTime

Abandon ==
    \E type \in Types, duration \in 1 .. MaxTime, tag \in Tags, cookie \in Cookies :
    \E description \in {"", "held by c1"}, addr_type \in {TYPE_MSGR2, TYPE_LEGACY} :
        /\ CanRunOut(duration)
        /\ Key("foo") \notin DOMAIN xattrs["o1"]
        /\ lock_op("o1", Origin("c1", addr_type),
                   cls_lock_lock_op("foo", type, duration, description, {}, cookie, tag,
                                    NoBid, 0),
                   IoOk)

Retry ==
    \E duration \in Durations, tag \in Tags, flags \in {{}, {LOCK_FLAG_MAY_RENEW}} :
        /\ \E id \in DOMAIN Persisted("o1", "foo").lockers : id[1] = "c1"
        /\ lock_op("o1", Origin("c2", TYPE_MSGR2),
                   cls_lock_lock_op("foo", LOCK_EXCLUSIVE, duration, "", flags, "k1", tag,
                                    NoBid, 0),
                   IoOk)

NextLive ==
    \/ Abandon
    \/ Retry
    \/ Tick

SpecLive == Init /\ [][NextLive]_vars /\ WF_vars(Tick) /\ WF_vars(Retry)

-----------------------------------------------------------------------------
(* The specification SpecEph: ephemeral records.  One object that may carry  *)
(* an attribute of its user, two lock names; client c1 takes each lock as    *)
(* Exclusive or ExclusiveEphemeral, releases it, it is broken, queried and   *)
(* listed, and the clock advances.  The store's remove may fail.             *)

Names == {"foo", "bar"}

InitEph == InitStore({"o1"}, UserAttrs)

EphLock ==
    \E name \in Names, type \in {LOCK_EXCLUSIVE, LOCK_EXCLUSIVE_EPHEMERAL} :
    \E duration \in Durations :
        lock_op("o1", Origin("c1", TYPE_MSGR2),
                cls_lock_lock_op(name, type, duration, "", {}, "k1", "", NoBid, 0),
                IoOk)

EphUnlock ==
    \E name \in Names, io \in {IoOk, IoRemove} : unlock_op("o1", "c1", name, "k1", io)

EphBreakLock == \E name \in Names : break_lock("o1", name, "c1", "k1", IoOk)

EphGetInfo == \E name \in Names, io \in {IoOk, IoRemove} : get_info_op("o1", name, io)

EphListLocks == list_locks_op("o1", IoOk)

EphAssertLocked ==
    \E name \in Names :
        assert_locked_op("o1", "c1",
                         cls_lock_assert_op(name, LOCK_EXCLUSIVE_EPHEMERAL, "k1", ""),
                         IoOk)

NextEph ==
    \/ EphLock
    \/ EphUnlock
    \/ EphBreakLock
    \/ EphGetInfo
    \/ EphListLocks
    \/ EphAssertLocked
    \/ Tick

SpecEph == InitEph /\ [][NextEph]_vars

-----------------------------------------------------------------------------
(* The specification SpecRenew: renewals.  c1 takes and renews the lock from *)
(* one of two hosts, with one of two descriptions and with or without the    *)
(* may-renew flag; c2 takes it from its own host; both release it, the       *)
(* record is queried and the clock advances.                                 *)

Hosts == {"h1", "h2"}
Descriptions == {"", "d"}

RenewLock ==
    \E host \in Hosts, type \in Types, duration \in Durations :
    \E description \in Descriptions, flags \in {{}, {LOCK_FLAG_MAY_RENEW}} :
        lock_op("o1", entity_inst_t("c1", entity_addr_t(TYPE_MSGR2, host)),
                cls_lock_lock_op("foo", type, duration, description, flags, "k1", "",
                                 NoBid, 0),
                IoOk)

OtherLock ==
    \E type \in Types, duration \in Durations :
        lock_op("o1", Origin("c2", TYPE_MSGR2),
                cls_lock_lock_op("foo", type, duration, "", {}, "k1", "", NoBid, 0),
                IoOk)

RenewUnlock == \E who \in Clients : unlock_op("o1", who, "foo", "k1", IoOk)

RenewGetInfo == get_info_op("o1", "foo", IoOk)

NextRenew ==
    \/ RenewLock
    \/ OtherLock
    \/ RenewUnlock
    \/ RenewGetInfo
    \/ Tick

SpecRenew == Init /\ [][NextRenew]_vars

-----------------------------------------------------------------------------
(* The specification SpecValid: validation.  c1 and c2 send bidded and       *)
(* bid-less lock requests for "foo", well formed or not (an invalid kind, an *)
(* empty name, both renew flags, a bid with kind Shared), release the lock,  *)
(* and the clock advances.                                                   *)

AllKinds == Types \cup {LOCK_NONE, LOCK_INVALID}
AllFlags == SUBSET {LOCK_FLAG_MAY_RENEW, LOCK_FLAG_MUST_RENEW}

ValidLock ==
    \E who \in Clients, type \in {LOCK_EXCLUSIVE, LOCK_SHARED}, duration \in Durations :
    \E bid_amount \in {NoBid, 4} :
        /\ (bid_amount >= 0 => type = LOCK_EXCLUSIVE)
        /\ lock_op("o1", Origin(who, TYPE_MSGR2),
                   cls_lock_lock_op("foo", type, duration, "", {}, "k1", "",
                                    bid_amount, BidDuration),
                   IoOk)

InvalidLock ==
    \E name \in {"", "foo"}, type \in AllKinds, flags \in AllFlags :
    \E bid_amount \in {NoBid, 4} :
        /\ \/ type \in {LOCK_NONE, LOCK_INVALID}
           \/ name = ""
           \/ flags = {LOCK_FLAG_MAY_RENEW, LOCK_FLAG_MUST_RENEW}
           \/ (bid_amount >= 0 /\ type = LOCK_SHARED)
        /\ lock_op("o1", Origin("c1", TYPE_MSGR2),
                   cls_lock_lock_op(name, type, 1, "", flags, "k1", "", bid_amount,
                                    BidDuration),
                   IoOk)

ValidUnlock == \E who \in Clients : unlock_op("o1", who, "foo", "k1", IoOk)

NextValid ==
    \/ ValidLock
    \/ InvalidLock
    \/ ValidUnlock
    \/ Tick

SpecValid == Init /\ [][NextValid]_vars

-----------------------------------------------------------------------------
(* The specification SpecOffer: standing bids.  The bidders of 5 and of 3    *)
(* ask for the exclusive lock "foo" with their bids, with or without         *)
(* may-renew, and release it, and the clock advances; the requests of every  *)
(* bidder, with every flag setting, tag and store failure, are judged in the *)
(* states this reaches.                                                      *)

OfferLock ==
    \E who \in {"c1", "c2"}, type \in {LOCK_EXCLUSIVE, LOCK_EXCLUSIVE_EPHEMERAL} :
    \E duration \in Durations, flags \in {{}, {LOCK_FLAG_MAY_RENEW}} :
        lock_op("o1", Origin(who, TYPE_MSGR2),
                cls_lock_lock_op("foo", type, duration, "", flags, "k1", "",
                                 BidOf(who), BidDuration),
                IoOk)

OfferUnlock == \E who \in {"c1", "c2"} : unlock_op("o1", who, "foo", "k1", IoOk)

NextOffer ==
    \/ OfferLock
    \/ OfferUnlock
    \/ Tick

SpecOffer == Init /\ [][NextOffer]_vars

-----------------------------------------------------------------------------
(* The specification SpecRead: the bidders of SpecOffer and their locks,   *)
(* with the methods that only read: get_info (with and without a failing   *)
(* remove), list_locks and assert_locked.                                  *)

ReadGetInfo == \E io \in {IoOk, IoRemove} : get_info_op("o1", "foo", io)

ReadListLocks == list_locks_op("o1", IoOk)

ReadAssertLocked ==
    \E who \in {"c1", "c2"}, type \in {LOCK_EXCLUSIVE, LOCK_EXCLUSIVE_EPHEMERAL} :
        assert_locked_op("o1", who, cls_lock_assert_op("foo", type, "k1", ""), IoOk)

NextRead ==
    \/ OfferLock
    \/ OfferUnlock
    \/ ReadGetInfo
    \/ ReadListLocks
    \/ ReadAssertLocked
    \/ Tick

SpecRead == Init /\ [][NextRead]_vars

-----------------------------------------------------------------------------
(* The specification SpecTie: c1 and c2 bid the same amount, 5, for the    *)
(* exclusive lock "foo", with or without may-renew; either of them also    *)
(* asks for it without a bid; they release it and the clock advances.      *)

TieLocks ==
    [name : {"foo"}, type : {LOCK_EXCLUSIVE, LOCK_EXCLUSIVE_EPHEMERAL},
     duration : Durations, description : {""}, flags : {{}, {LOCK_FLAG_MAY_RENEW}},
     cookie : {"k1"}, tag : {""}, bid_amount : {BidOf("c1")},
     bid_duration : {BidDuration}]

TieLock ==
    \E who \in {"c1", "c2"}, op \in TieLocks :
        lock_op("o1", Origin(who, TYPE_MSGR2), op, IoOk)

NoBidLock ==
    \E who \in {"c1", "c2"}, op \in TieLocks :
        lock_op("o1", Origin(who, TYPE_MSGR2),
                [op EXCEPT !.bid_amount = NoBid, !.bid_duration = 0], IoOk)

NextTie ==
    \/ TieLock
    \/ NoBidLock
    \/ OfferUnlock
    \/ Tick

SpecTie == Init /\ [][NextTie]_vars

-----------------------------------------------------------------------------
(* lock_obj step by step.  Calls on different objects run at the same time; *)
(* the host runs the calls on one object one after the other.  A call takes *)
(* bids_mtx at line 230 and gives it back at line 249, takes it again at    *)
(* line 312 and gives it back at line 331 or 333; its store calls are the   *)
(* read_lock of line 252 and the write_lock of line 353.  The call reads    *)
(* the clock once, at line 191.                                             *)

(* a call of another client is running on object o *)
Busy(o, who) ==
    \E other \in Requesters \ {who} : calls[other].pc # "idle" /\ calls[other].o = o

(* the part of the store and of the bids that a call on (o, name) works on *)
ObjectOnly(o) == Store([x \in {o} |-> exists[o]], [x \in {o} |-> xattrs[o]])

BidsOnly(b, o, name) ==
    IF o \in DOMAIN b /\ name \in DOMAIN b[o]
    THEN [x \in {o} |-> [y \in {name} |-> b[o][name]]]
    ELSE NoBids

(* lines 258-307: the tag, existence and capacity checks on the record read; *)
(* r is OK when the call goes on, with the lockers left after line 283       *)
Checks(linfo, origin, op) ==
    LET fail_if_exists == LOCK_FLAG_MAY_RENEW \notin op.flags
        fail_if_does_not_exist == LOCK_FLAG_MUST_RENEW \in op.flags
        id == locker_id_t(origin.name, op.cookie)
        found == id \in DOMAIN linfo.lockers
        lockers == IF found THEN Erase(linfo.lockers, id) ELSE linfo.lockers
        out(r, why) == [r |-> r, why |-> why, lockers |-> lockers, is_renewing |-> found]
    IN  IF linfo.lockers # NoLockers /\ op.tag # linfo.tag
        THEN out(EBUSY, "tag")
        ELSE IF found /\ fail_if_exists /\ ~fail_if_does_not_exist
        THEN out(EEXIST, "exists")
        ELSE IF ~found /\ fail_if_does_not_exist
        THEN out(ENOENT, "no_lock_to_renew")
        ELSE IF lockers # NoLockers /\ cls_lock_is_exclusive(op.type)
        THEN out(EBUSY, "exclusive")
        ELSE IF lockers # NoLockers /\ linfo.lock_type # op.type
        THEN out(EBUSY, "lock_type")
        ELSE out(OK, "")

(* the call moves on: its pc, and what it knows of its outcome *)
Goes(who, pc, lockers, is_renewing, r, why) ==
    calls' = [calls EXCEPT ![who] =
                 Call(pc, @.o, @.op, @.t, lockers, is_renewing, r, why, @.st0, @.b0)]

(* lines 165-211: the call arrives, is validated and reads the clock *)
Start(who, o, op) ==
    LET invalid == IF ~cls_lock_is_valid(op.type) THEN "lock_type_invalid"
                   ELSE IF op.name = "" THEN "name_empty"
                   ELSE IF LOCK_FLAG_MAY_RENEW \in op.flags
                           /\ LOCK_FLAG_MUST_RENEW \in op.flags THEN "flags"
                   ELSE IF op.bid_amount >= 0 /\ ~cls_lock_is_exclusive(op.type)
                   THEN "bid_not_exclusive"
                   ELSE ""
        pc == IF invalid # "" THEN "done"
              ELSE IF op.bid_amount >= 0 THEN "lock_230" ELSE "read_252"
    IN  /\ calls[who].pc = "idle"
        /\ ~Busy(o, who)
        /\ calls' = [calls EXCEPT ![who] =
                        Call(pc, o, op, now, NoLockers, FALSE,
                             IF invalid # "" THEN EINVAL ELSE OK, invalid,
                             ObjectOnly(o), BidsOnly(bids, o, op.name))]
        /\ UNCHANGED <<now, exists, xattrs, bids, last, bids_mtx>>

(* line 230 and line 312: std::unique_lock<std::mutex> guard(bids_mtx) *)
Acquire(who) ==
    /\ calls[who].pc \in {"lock_230", "lock_312"}
    /\ bids_mtx = NoMutex
    /\ bids_mtx' = who
    /\ Goes(who, IF calls[who].pc = "lock_230" THEN "bid_233" ELSE "scan_313",
            calls[who].lockers, calls[who].is_renewing, OK, "")
    /\ UNCHANGED <<now, exists, xattrs, bids, last>>

(* the registration that leaves the block of line 249 with the mutex held *)
Register_KeepsMutex(who) ==
    LET c == calls[who]
    IN  /\ c.pc = "bid_233"
        /\ bids' = UpdateBid(bids, c.o, c.op.name, who,
                             BidRecord(c.op.bid_amount, c.t + c.op.bid_duration))
        /\ Goes(who, "read_252", c.lockers, c.is_renewing, OK, "")
        /\ UNCHANGED <<now, exists, xattrs, last, bids_mtx>>

(* lines 233-249: the bid is registered and the guard goes out of scope *)
Register(who) ==
    LET c == calls[who]
    IN  /\ c.pc = "bid_233"
        /\ bids' = UpdateBid(bids, c.o, c.op.name, who,
                             BidRecord(c.op.bid_amount, c.t + c.op.bid_duration))
        /\ bids_mtx' = NoMutex
        /\ Goes(who, "read_252", c.lockers, c.is_renewing, OK, "")
        /\ UNCHANGED <<now, exists, xattrs, last>>

(* lines 252-307: read_lock, then the checks on the record it returned *)
Read(who) ==
    LET c == calls[who]
        rd == read_lock(Store(exists, xattrs), c.o, c.op.name, c.t, IoOk)
        chk == Checks(rd.lock, Origin(who, TYPE_MSGR2), c.op)
    IN  /\ c.pc = "read_252"
        /\ exists' = rd.store.exists
        /\ xattrs' = rd.store.xattrs
        /\ IF rd.r # OK /\ rd.r # ENOENT
           THEN Goes(who, "done", NoLockers, FALSE, rd.r, "read_lock")
           ELSE IF chk.r # OK
           THEN Goes(who, "done", chk.lockers, chk.is_renewing, chk.r, chk.why)
           ELSE Goes(who,
                     IF ~chk.is_renewing /\ c.op.bid_amount >= 0
                     THEN "lock_312" ELSE "write_337",
                     chk.lockers, chk.is_renewing, OK, "")
        /\ UNCHANGED <<now, bids, last, bids_mtx>>

(* lines 313-333: the scan under the mutex; the guard goes out of scope at *)
(* the return of line 331 or at line 333                                   *)
Scan(who) ==
    LET c == calls[who]
        lost == c.op.bid_amount # best_bid(bids[c.o][c.op.name], c.op.bid_amount, c.t)
    IN  /\ c.pc = "scan_313"
        /\ bids' = ScanBids(bids, c.o, c.op.name, c.t)
        /\ bids_mtx' = NoMutex
        /\ IF lost
           THEN Goes(who, "done", c.lockers, c.is_renewing, EBUSY, "lower_bid")
           ELSE Goes(who, "write_337", c.lockers, c.is_renewing, OK, "")
        /\ UNCHANGED <<now, exists, xattrs, last>>

(* lines 335-357: the record is built and written *)
Write(who) ==
    LET c == calls[who]
        res == GrantLock(Store(exists, xattrs), bids, c.t, c.o, Origin(who, TYPE_MSGR2),
                         c.op, c.lockers, c.is_renewing, IoOk)
    IN  /\ c.pc = "write_337"
        /\ exists' = res.store.exists
        /\ xattrs' = res.store.xattrs
        /\ Goes(who, "done", c.lockers, c.is_renewing, res.r, res.why)
        /\ UNCHANGED <<now, bids, last, bids_mtx>>

(* the reply goes to the client *)
Return(who) ==
    LET c == calls[who]
    IN  /\ c.pc = "done"
        /\ calls' = [calls EXCEPT ![who] = NoCall]
        /\ last' = Reply("lock", c.o, c.op.name, who, c.r, c.why, lock_info_t, {})
        /\ UNCHANGED <<now, exists, xattrs, bids, bids_mtx>>

-----------------------------------------------------------------------------
(* The specification SpecConc: two objects and two lock names, the bidded   *)
(* lock calls of c1 (amount 5) and c2 (amount 3) run step by step, c1 on    *)
(* (o1, foo) and c2 on (o1, foo), (o1, bar) and (o2, foo); the locks of foo *)
(* are Exclusive, those of bar ExclusiveEphemeral, all with duration 1.     *)

TargetsOf(who) ==
    IF who = "c1" THEN {<<"o1", "foo">>}
    ELSE {<<"o1", "foo">>, <<"o1", "bar">>, <<"o2", "foo">>}

InitConc == InitStore({"o1", "o2"}, NoAttrs)

(* the lock calls of who on the lock name *)
ConcLocks(who, name) ==
    [name : {name},
     type : IF name = "bar" THEN {LOCK_EXCLUSIVE_EPHEMERAL} ELSE {LOCK_EXCLUSIVE},
     duration : {1}, description : {""},
     flags : {{LOCK_FLAG_MAY_RENEW}}, cookie : {"k1"}, tag : {""},
     bid_amount : {BidOf(who)}, bid_duration : {BidDuration}]

ConcStart ==
    \E who \in Requesters :
    \E target \in TargetsOf(who) :
    \E op \in ConcLocks(who, target[2]) :
        Start(who, target[1], op)

ConcAcquire == \E who \in Requesters : Acquire(who)

ConcRegister == \E who \in Requesters : Register(who)

ConcRead == \E who \in Requesters : Read(who)

ConcScan == \E who \in Requesters : Scan(who)

ConcWrite == \E who \in Requesters : Write(who)

ConcReturn == \E who \in Requesters : Return(who)

NextConc ==
    \/ ConcStart
    \/ ConcAcquire
    \/ ConcRegister
    \/ ConcRead
    \/ ConcScan
    \/ ConcWrite
    \/ ConcReturn
    \/ Tick

SpecConc == InitConc /\ [][NextConc]_vars

-----------------------------------------------------------------------------
(* Claims *)

Holders(o, name) == DOMAIN Persisted(o, name).lockers

(* the holders a read at the present time keeps: expiration zero or not yet past *)
Live(o, name) ==
    {id \in Holders(o, name) :
        \/ Persisted(o, name).lockers[id].expiration = 0
        \/ Persisted(o, name).lockers[id].expiration >= now}

(* the store and the outcome of a lock call made in the present state *)
TheStore == Store(exists, xattrs)

TryLock(o, who, op) ==
    lock_obj(TheStore, bids, now, o, Origin(who, TYPE_MSGR2), op, IoOk)

(* the lock calls without a bid that the claims range over *)
PlainLocks ==
    [name : {"foo"}, type : Types, duration : Durations, description : {""},
     flags : Renewals, cookie : Cookies, tag : Tags, bid_amount : {NoBid},
     bid_duration : {0}]

(* the call passes the tag check and the existence checks of lock_obj *)
PassesTag(o, op) == Live(o, op.name) = {} \/ op.tag = Persisted(o, op.name).tag

PassesExistence(o, who, op) ==
    LET id == locker_id_t(who, op.cookie)
    IN  /\ ~(id \in Live(o, op.name) /\ op.flags = {})
        /\ ~(id \notin Live(o, op.name) /\ LOCK_FLAG_MUST_RENEW \in op.flags)

(* C1: in every reachable state, for every object and lock name, a persisted *)
(* record whose kind is Exclusive or ExclusiveEphemeral has at most one      *)
(* entry in lockers.                                                         *)
C1_Exclusivity ==
    \A o \in DOMAIN xattrs : \A name \in LockNames(o) :
        cls_lock_is_exclusive(Persisted(o, name).lock_type)
            => Cardinality(Holders(o, name)) <= 1

(* an Exclusive record holds its one locker and a second requester was just *)
(* turned away by the exclusive branch of the capacity check                *)
C1_Witness ==
    /\ last.method = "lock" /\ last.r = EBUSY /\ last.why = "exclusive"
    /\ Persisted("o1", "foo").lock_type = LOCK_EXCLUSIVE
    /\ Cardinality(Holders("o1", "foo")) = 1
    /\ \A id \in Holders("o1", "foo") : id[1] # last.who

(* C2: capacity check of lock.  For a call that passes the tag and existence *)
(* checks, with "remaining" the unexpired lockers other than the requester's  *)
(* own (identity, cookie): if any remains and the requested kind is Exclusive *)
(* or ExclusiveEphemeral, or if any remains and the record's kind differs     *)
(* from the requested kind, the call is rejected busy and the store is left   *)
(* as it was; a Shared request on a Shared record with remaining lockers is   *)
(* granted and the record then holds the remaining lockers, unchanged, plus   *)
(* exactly the requester's entry.                                             *)
C2_CapacityCheck ==
    \A o \in DOMAIN xattrs, who \in Clients, op \in PlainLocks :
        LET id == locker_id_t(who, op.cookie)
            remaining == Live(o, op.name) \ {id}
            old == Persisted(o, op.name)
            res == TryLock(o, who, op)
            new == res.store.xattrs[o][Key(op.name)]
        IN  (PassesTag(o, op) /\ PassesExistence(o, who, op) /\ remaining # {}) =>
              IF cls_lock_is_exclusive(op.type) \/ old.lock_type # op.type
              THEN res.r = EBUSY /\ res.store = TheStore
              ELSE /\ res.r = OK
                   /\ new.lock_type = LOCK_SHARED
                   /\ DOMAIN new.lockers = remaining \cup {id}
                   /\ \A i \in remaining : new.lockers[i] = old.lockers[i]

(* Scenario B has happened: the last call was granted as a new locker of a *)
(* Shared record that another identity already held                        *)
C2_Witness ==
    /\ last.method = "lock" /\ last.r = OK /\ last.why = "grant"
    /\ Persisted("o1", "foo").lock_type = LOCK_SHARED
    /\ Cardinality(Live("o1", "foo")) = 2
    /\ \E id \in Live("o1", "foo") : id[1] # last.who

(* the bid of a client for (o, name) that a scan at the present time counts *)
BidsFor(o, name) == ClientBidMap(bids, o, name)

LiveBid(o, name, who) ==
    who \in DOMAIN BidsFor(o, name) /\ BidsFor(o, name)[who].expiration >= now

(* the bidded lock calls of the three bidders, each with its own amount *)
BidLocksOf(who) ==
    [name : {"foo"}, type : {LOCK_EXCLUSIVE, LOCK_EXCLUSIVE_EPHEMERAL},
     duration : Durations, description : {""}, flags : {{}, {LOCK_FLAG_MAY_RENEW}},
     cookie : {"k1"}, tag : {""}, bid_amount : {BidOf(who)},
     bid_duration : {BidDuration}]

AnyBidLocks ==
    [name : {"foo"}, type : {LOCK_EXCLUSIVE, LOCK_EXCLUSIVE_EPHEMERAL},
     duration : {1}, description : {""}, flags : {{}, {LOCK_FLAG_MAY_RENEW}},
     cookie : {"k1"}, tag : Tags, bid_amount : {3, 4, 5, 7},
     bid_duration : {0, BidDuration}]

(* C4: lowest live bid wins.  A lock call with bid amount a that does not    *)
(* renew and passes the tag, existence and capacity checks is granted if and *)
(* only if a is at most the amount of every other bid registered for the     *)
(* same object and lock name whose expiration is not earlier than now; it is *)
(* otherwise rejected busy.  Bids that expired before now do not count.      *)
C4_LowestLiveBidWins ==
    \A who \in Bidders, op \in AnyBidLocks :
        LET res == TryLock("o1", who, op)
            others == DOMAIN BidsFor("o1", "foo") \ {who}
            lowest == \A c \in others :
                         \/ BidsFor("o1", "foo")[c].expiration < now
                         \/ op.bid_amount <= BidsFor("o1", "foo")[c].amount
        IN  (PassesTag("o1", op) /\ Live("o1", "foo") = {}) =>
              /\ res.r = OK <=> lowest
              /\ res.r # OK => (res.r = EBUSY /\ res.why = "lower_bid")

(* an auction among several unexpired bids was held and won: the bidder of *)
(* 5 has just been granted the lock while the bid of 7 is unexpired        *)
C4_Witness ==
    /\ last.method = "lock" /\ last.who = "c1" /\ last.r = OK /\ last.why = "grant"
    /\ LiveBid("o1", "foo", "c1")
    /\ LiveBid("o1", "foo", "c3")

(* C5: tag consistency.  In every step taken while the record has an       *)
(* unexpired locker, the tag of the record stays what it was: every lock     *)
(* call granted between the first grant and the emptying of the record, a    *)
(* fresh grant or a renewal, carries the tag of the first grant.             *)
C5_TagConsistency ==
    [][\A o \in DOMAIN xattrs :
          (Live(o, "foo") # {} /\ Key("foo") \in DOMAIN xattrs'[o]) =>
              xattrs'[o][Key("foo")].tag = Persisted(o, "foo").tag]_vars

(* a record with tag "t" holds two lockers: the second grant carried the *)
(* tag of the first                                                      *)
C5_Witness ==
    /\ last.method = "lock" /\ last.r = OK /\ last.why = "grant"
    /\ Persisted("o1", "foo").tag = "t"
    /\ Cardinality(Live("o1", "foo")) = 2

(* the calls of the other methods that the claims range over *)
TryGetInfo(o, name) == get_info(TheStore, now, o, name, IoOk)

TryRemove(o, name, locker, cookie) ==
    remove_lock(TheStore, now, o, name, locker, cookie, IoOk)

TryAssert(o, who, op) == assert_locked(TheStore, now, o, who, op, IoOk)

TrySetCookie(o, who, op) == set_cookie(TheStore, now, o, who, op, IoOk)

(* C6: expiry sweep.  A read of a record drops exactly the lockers whose     *)
(* expiration is not zero and is earlier than now: the get_info reply lists  *)
(* every other locker of the persisted record, unchanged, and no more; a     *)
(* locker with expiration zero is listed at every time.  A dropped locker is *)
(* no holder: unlock and break_lock for it answer not-found, assert_locked   *)
(* and set_cookie by it answer busy, and lock by it is not answered "already *)
(* exists" (and is "no lock to renew" or busy under must-renew).             *)
C6_ExpirySweep ==
    \A o \in DOMAIN xattrs : \A name \in LockNames(o) :
        LET old == Persisted(o, name).lockers
            ret == TryGetInfo(o, name)
        IN  /\ ret.r = OK
            /\ DOMAIN ret.ret.lockers =
                   {id \in DOMAIN old :
                       ~(old[id].expiration # 0 /\ old[id].expiration < now)}
            /\ \A id \in DOMAIN ret.ret.lockers : ret.ret.lockers[id] = old[id]
            /\ \A id \in DOMAIN old : old[id].expiration = 0 => id \in DOMAIN ret.ret.lockers
            /\ \A id \in DOMAIN old \ DOMAIN ret.ret.lockers :
                 /\ TryRemove(o, name, id[1], id[2]).r = ENOENT
                 /\ \A type \in Types, tag \in Tags :
                      /\ TryAssert(o, id[1], cls_lock_assert_op(name, type, id[2], tag)).r
                             = EBUSY
                      /\ \A new_cookie \in Cookies :
                             TrySetCookie(o, id[1],
                                 cls_lock_set_cookie_op(name, type, id[2], tag,
                                                        new_cookie)).r = EBUSY
                 /\ \A op \in PlainLocks :
                      op.cookie = id[2] =>
                        /\ TryLock(o, id[1], op).r # EEXIST
                        /\ TryLock(o, id[1], op).why # "renew"
                        /\ LOCK_FLAG_MUST_RENEW \in op.flags =>
                               TryLock(o, id[1], op).r \in {ENOENT, EBUSY}

(* get_info has just answered for a record that persists an expired locker *)
(* next to one that never expires: the reply lists the second one only     *)
C6_Witness ==
    /\ last.method = "get_info" /\ last.r = OK
    /\ DOMAIN last.ret.lockers # Holders("o1", "foo")
    /\ \E id \in DOMAIN last.ret.lockers : last.ret.lockers[id].expiration = 0
    /\ \E id \in Holders("o1", "foo") :
           /\ id \notin DOMAIN last.ret.lockers
           /\ Persisted("o1", "foo").lockers[id].expiration < now

(* c1 has an entry in the record of the lock *)
AbandonedByC1 == \E id \in Holders("o1", "foo") : id[1] = "c1"

(* every bid-less Exclusive request of c2 that is not must-renew would be granted *)
FreeForC2 ==
    \A op \in PlainLocks :
        (op.type = LOCK_EXCLUSIVE /\ LOCK_FLAG_MUST_RENEW \notin op.flags) =>
            TryLock("o1", "c2", op).r = OK

(* c2's request has just been granted and c2 is the one holder *)
GrantedToC2 ==
    /\ last.method = "lock" /\ last.who = "c2" /\ last.r = OK
    /\ Holders("o1", "foo") = {locker_id_t("c2", "k1")}

(* C7: an abandoned lock frees itself.  Once c1 holds the lock with a      *)
(* duration that is not zero and does not renew it, and the clock keeps      *)
(* advancing, a state follows in which a bid-less Exclusive lock request of  *)
(* c2 would be granted with every tag, and c2's request is in fact granted.  *)
C7_AbandonedLockFrees ==
    /\ AbandonedByC1 ~> FreeForC2
    /\ AbandonedByC1 ~> GrantedToC2

(* c2 holds the lock that c1 had taken and left: c2 only asks while c1's *)
(* entry is in the record, so its grant came after that entry expired    *)
C7_Witness == GrantedToC2 /\ now > 2

(* the object o is gone from the store st: no attribute is left on it, and *)
(* list_locks and get_info of every lock name answer -ENOENT               *)
Gone(st, o) ==
    /\ ~st.exists[o]
    /\ st.xattrs[o] = NoAttrs
    /\ list_locks(st, o, IoOk).r = ENOENT
    /\ \A n \in Names : get_info(st, now, o, n, IoOk).r = ENOENT

(* the record of (o, name) is ExclusiveEphemeral and every locker of it has *)
(* expired: the next read of it sweeps it empty                             *)
SweptEmpty(o, name) ==
    /\ exists[o]
    /\ Key(name) \in DOMAIN xattrs[o]
    /\ cls_lock_is_ephemeral(Persisted(o, name).lock_type)
    /\ Live(o, name) = {}

(* a release of c1's lock on (o, name) that deletes an ephemeral record *)
Release(o, name, io) == remove_lock(TheStore, now, o, name, "c1", "k1", io)

Deletes(res) == res.why = "clean_lock" /\ res.r = OK

Renewals_c1(o) ==
    {op \in [name : {"foo"}, type : Types, duration : Durations,
             description : Descriptions, flags : {{LOCK_FLAG_MAY_RENEW}},
             cookie : {"k1"}, tag : Tags, bid_amount : {NoBid}, bid_duration : {0}] :
        /\ op.type = Persisted(o, op.name).lock_type
        /\ op.tag = Persisted(o, op.name).tag}

RenewFrom(o, host, op, io) ==
    lock_obj(TheStore, bids, now, o,
             entity_inst_t("c1", entity_addr_t(TYPE_MSGR2, host)), op, io)

(* the entry a granted call writes for its caller *)
EntryOf(host, op) ==
    locker_info_t(IF op.duration # 0 THEN now + op.duration ELSE 0,
                  entity_addr_t(TYPE_LEGACY, host), op.description)

(* C10 as the specification words it: a lock call with flags = may-renew by *)
(* an (identity, cookie) that has an entry in the record, with the record's *)
(* kind and tag, changes only that entry's expiration and description: the  *)
(* record keeps the same lockers, the entries of the others and the address *)
(* of the caller's entry are as they were.                                  *)
C10_OnlyExpirationAndDescription ==
    \A o \in DOMAIN xattrs, host \in Hosts : \A op \in Renewals_c1(o) :
        LET id == locker_id_t("c1", op.cookie)
            old == Persisted(o, op.name)
            new == RenewFrom(o, host, op, IoOk).store.xattrs[o][Key(op.name)]
        IN  id \in Holders(o, op.name) =>
                /\ Key(op.name) \in DOMAIN RenewFrom(o, host, op, IoOk).store.xattrs[o]
                /\ DOMAIN new.lockers = DOMAIN old.lockers
                /\ \A x \in DOMAIN old.lockers \ {id} : new.lockers[x] = old.lockers[x]
                /\ new.lockers[id].addr = old.lockers[id].addr

(* C10: renewal.  A lock call with flags = may-renew by an (identity,       *)
(* cookie) whose entry is in the record and unexpired, with the record's    *)
(* kind and tag, is granted as a renewal: the record keeps its kind and     *)
(* tag, its lockers are the unexpired lockers it had, the entries of the    *)
(* others unchanged, and the caller's entry is replaced by one with the     *)
(* expiration and description of the call and the caller's address made     *)
(* legacy; there is no second entry of the id, the number of unexpired      *)
(* lockers is unchanged, lockers of others that had expired are dropped,    *)
(* and no other attribute of the object changes.  When the write fails the  *)
(* call fails and the store is as it was.  When the caller's entry has      *)
(* expired the call is a fresh request: rejected busy with the store of the *)
(* sweep, or granted with the caller's entry added to the unexpired ones.   *)
C10_RenewReplacesOwnEntry ==
    \A o \in DOMAIN xattrs, host \in Hosts : \A op \in Renewals_c1(o) :
        LET id == locker_id_t("c1", op.cookie)
            old == Persisted(o, op.name)
            res == RenewFrom(o, host, op, IoOk)
            new == res.store.xattrs[o][Key(op.name)]
            written == [lock_type |-> old.lock_type, tag |-> old.tag,
                        lockers |-> [x \in Live(o, op.name) \cup {id} |->
                                        IF x = id THEN EntryOf(host, op)
                                        ELSE old.lockers[x]]]
        IN  /\ id \in Live(o, op.name) =>
                /\ res.r = OK /\ res.why = "renew" /\ res.bids = bids
                /\ res.store = Store(exists, [xattrs EXCEPT ![o] =
                                                 Put(xattrs[o], Key(op.name), written)])
                /\ Cardinality(DOMAIN new.lockers) = Cardinality(Live(o, op.name))
                /\ RenewFrom(o, host, op, IoSet).r = EIO
                /\ RenewFrom(o, host, op, IoSet).store = TheStore
            /\ id \in Holders(o, op.name) \ Live(o, op.name) =>
                \/ /\ res.r = EBUSY
                   /\ res.store = read_lock(TheStore, o, op.name, now, IoOk).store
                \/ /\ res.r = OK /\ res.why = "grant"
                   /\ new = written

(* c1 has just renewed its entry of a Shared record that c2 holds too: the *)
(* record has the two lockers and c1's entry has the new description       *)
C10_Witness ==
    /\ last.method = "lock" /\ last.who = "c1" /\ last.r = OK /\ last.why = "renew"
    /\ Persisted("o1", "foo").lock_type = LOCK_SHARED
    /\ Cardinality(Holders("o1", "foo")) = 2
    /\ Persisted("o1", "foo").lockers[locker_id_t("c1", "k1")].description = "d"
    /\ Persisted("o1", "foo").lockers[locker_id_t("c1", "k1")].addr.host = "h2"

(* the bidded lock calls that pass validation: every flag setting, both *)
(* tags, the amount 4, bid durations 0 and BidDuration                  *)
ValidBidLocks ==
    [name : {"foo"}, type : {LOCK_EXCLUSIVE, LOCK_EXCLUSIVE_EPHEMERAL},
     duration : {1}, description : {""}, flags : Renewals,
     cookie : {"k1"}, tag : Tags, bid_amount : {4},
     bid_duration : {0, BidDuration}]

(* the outcomes of lock_obj after the registration of the bid *)
AfterRegistration ==
    {"read_lock", "tag", "exists", "no_lock_to_renew", "exclusive", "lock_type",
     "lower_bid", "write_lock", "grant", "renew"}

Won(w, opw) == TryLock("o1", w, opw)

Released(w, opw) ==
    remove_lock(Won(w, opw).store, now, "o1", opw.name, w, opw.cookie, IoOk)

NextBidder(w, opw, h, oph) ==
    lock_obj(Released(w, opw).store, Won(w, opw).bids, now, "o1",
             Origin(h, TYPE_MSGR2), oph, IoOk)

(* no bidder other than w and h has an unexpired bid below the amount of h *)
NoThirdLowerBid(w, h) ==
    \A x \in DOMAIN BidsFor("o1", "foo") \ {w, h} :
        \/ BidsFor("o1", "foo")[x].expiration < now
        \/ BidOf(h) <= BidsFor("o1", "foo")[x].amount

(* C12: a bid persists only until it expires or its bidder wins.  Once the  *)
(* bidded request of w has been granted and w has released the lock, the    *)
(* request of a different bidder h with a higher amount, with no unexpired  *)
(* lower bid of a third bidder, is granted: the bid of w no longer counts.  *)
C12_WinningBidIsSpent ==
    \A w \in Bidders, h \in Bidders :
    \A opw \in BidLocksOf(w), oph \in BidLocksOf(h) :
        ( /\ w # h /\ BidOf(w) < BidOf(h)
          /\ Won(w, opw).r = OK /\ Won(w, opw).why = "grant"
          /\ Released(w, opw).r = OK
          /\ NoThirdLowerBid(w, h) )
        => NextBidder(w, opw, h, oph).r = OK

(* every lock request over the kinds, names, flag settings and bids *)
AnyLocks ==
    [name : {"", "foo"}, type : AllKinds, duration : {1}, description : {""},
     flags : AllFlags, cookie : {"k1"}, tag : {""}, bid_amount : {NoBid, 4},
     bid_duration : {BidDuration}]

(* the request is malformed: an invalid kind, an empty lock name, may-renew *)
(* and must-renew both set, or a bid with a kind that is not exclusive      *)
Malformed(op) ==
    \/ op.type \notin {LOCK_EXCLUSIVE, LOCK_SHARED, LOCK_EXCLUSIVE_EPHEMERAL}
    \/ op.name = ""
    \/ {LOCK_FLAG_MAY_RENEW, LOCK_FLAG_MUST_RENEW} \subseteq op.flags
    \/ (op.bid_amount >= 0 /\ op.type = LOCK_SHARED)

TagLocks ==
    [name : {"foo"}, type : Types, duration : Durations, description : {""},
     flags : Renewals, cookie : Cookies, tag : Tags, bid_amount : {NoBid},
     bid_duration : {0}]

(* C14: tag mismatch takes precedence.  Whenever the record after the sweep *)
(* has a locker and the tag of the request differs from the tag of the      *)
(* record, lock is rejected busy at the tag check and the store is left as  *)
(* it was, with every flag setting: also a must-renew request whose         *)
(* (identity, cookie) is absent and a renewal by a holder.                  *)
C14_TagMismatchFirst ==
    \A who \in Clients, op \in TagLocks :
        LET res == TryLock("o1", who, op)
        IN  (Live("o1", op.name) # {} /\ op.tag # Persisted("o1", op.name).tag) =>
                /\ res.r = EBUSY /\ res.why = "tag"
                /\ res.store = TheStore
                /\ res.bids = bids

(* a request with the other tag has just been rejected at the tag check, *)
(* from a client that has no entry in the record that another one holds  *)
C14_Witness ==
    /\ last.method = "lock" /\ last.r = EBUSY /\ last.why = "tag"
    /\ Live("o1", "foo") # {}
    /\ \A id \in Holders("o1", "foo") : id[1] # last.who

(* the must-renew calls among TagLocks *)
MustRenewLocks == {op \in TagLocks : LOCK_FLAG_MUST_RENEW \in op.flags}

(* C15 as the specification words it: a must-renew lock call whose          *)
(* (identity, cookie) is not in the record after the sweep is rejected as   *)
(* 'no such lock to renew' and leaves the persisted record unchanged.       *)
C15_AbsentMustRenewIsNotFound ==
    \A who \in Clients, op \in MustRenewLocks :
        LET res == TryLock("o1", who, op)
        IN  locker_id_t(who, op.cookie) \notin Live("o1", op.name) =>
                /\ res.r = ENOENT /\ res.why = "no_lock_to_renew"
                /\ res.store = TheStore

(* C15: a must-renew lock call never adds a locker id that was absent.  If  *)
(* the record after the sweep does not contain (identity, cookie), also     *)
(* when the requester's earlier lock has expired, the call is rejected:     *)
(* busy at the tag check when the record has an unexpired locker and        *)
(* another tag, as 'no such lock to renew' otherwise.  The id is not in the *)
(* record afterwards and the store is unchanged, except that an             *)
(* ExclusiveEphemeral record whose lockers have all expired is removed with *)
(* its object by the sweep.                                                 *)
C15_MustRenewNeverAdds ==
    \A who \in Clients, op \in MustRenewLocks :
        LET res == TryLock("o1", who, op)
            id == locker_id_t(who, op.cookie)
            after == read_lock(res.store, "o1", op.name, now, IoOk).lock
        IN  id \notin Live("o1", op.name) =>
                /\ id \notin DOMAIN after.lockers
                /\ IF Live("o1", op.name) # {} /\ op.tag # Persisted("o1", op.name).tag
                   THEN res.r = EBUSY /\ res.why = "tag"
                   ELSE res.r = ENOENT /\ res.why = "no_lock_to_renew"
                /\ res.store = IF SweptEmpty("o1", op.name)
                               THEN cls_cxx_remove(TheStore, "o1")
                               ELSE TheStore

(* a client whose entry has expired and is still in the persisted record *)
(* has just been told that there is no lock to renew                     *)
C15_Witness ==
    /\ last.method = "lock" /\ last.r = ENOENT /\ last.why = "no_lock_to_renew"
    /\ \E id \in Holders("o1", "foo") \ Live("o1", "foo") : id[1] = last.who

(* the bid-less lock calls with neither renew flag *)
FreshLocks == {op \in PlainLocks : op.flags = {}}

(* C16: the existence check of lock looks at the exact (identity, cookie)   *)
(* pair.  Of the calls with neither renew flag that pass the tag check: one *)
(* whose pair is an unexpired locker is rejected 'already exists' and the   *)
(* store is unchanged; one from an identity that holds the lock with        *)
(* another cookie only goes on to the capacity check, where a Shared        *)
(* request on a Shared record is granted as one more locker and every other *)
(* request is rejected busy with the store unchanged.                       *)
C16_ExactPairOnly ==
    \A who \in Clients, op \in FreshLocks :
        LET res == TryLock("o1", who, op)
            id == locker_id_t(who, op.cookie)
            old == Persisted("o1", op.name)
            new == res.store.xattrs["o1"][Key(op.name)]
            other == \E x \in Live("o1", op.name) : x[1] = who /\ x[2] # op.cookie
        IN  PassesTag("o1", op) =>
              /\ id \in Live("o1", op.name) =>
                    (res.r = EEXIST /\ res.why = "exists" /\ res.store = TheStore)
              /\ (id \notin Live("o1", op.name) /\ other) =>
                    IF op.type = LOCK_SHARED /\ old.lock_type = LOCK_SHARED
                    THEN /\ res.r = OK /\ res.why = "grant"
                         /\ DOMAIN new.lockers = Live("o1", op.name) \cup {id}
                         /\ \A x \in Live("o1", op.name) :
                                new.lockers[x] = old.lockers[x]
                    ELSE /\ res.r = EBUSY /\ res.why \in {"exclusive", "lock_type"}
                         /\ res.store = TheStore

(* c1 has just been granted a second locker of a Shared record, under its *)
(* other cookie                                                           *)
C16_Witness ==
    /\ last.method = "lock" /\ last.who = "c1" /\ last.r = OK /\ last.why = "grant"
    /\ Persisted("o1", "foo").lock_type = LOCK_SHARED
    /\ Live("o1", "foo") = {locker_id_t("c1", "k1"), locker_id_t("c1", "k2")}

(* the well-formed lock calls for "foo": every kind, valid flag setting and *)
(* tag, with the bid 4 or without a bid                                    *)
ContendingLocks ==
    {op \in [name : {"foo"}, type : Types, duration : {1}, description : {""},
             flags : Renewals, cookie : {"k1"}, tag : Tags, bid_amount : {NoBid, 4},
             bid_duration : {BidDuration}] :
        op.bid_amount >= 0 => op.type # LOCK_SHARED}

(* the contention that meets the call op of who, in the order lock_obj tests it *)
TagConflict(op) == Live("o1", op.name) # {} /\ op.tag # Persisted("o1", op.name).tag

AlreadyExists(who, op) ==
    locker_id_t(who, op.cookie) \in Live("o1", op.name) /\ op.flags = {}

NothingToRenew(who, op) ==
    /\ locker_id_t(who, op.cookie) \notin Live("o1", op.name)
    /\ LOCK_FLAG_MUST_RENEW \in op.flags

HeldByOthers(who, op) ==
    /\ Live("o1", op.name) \ {locker_id_t(who, op.cookie)} # {}
    /\ \/ op.type # LOCK_SHARED
       \/ Persisted("o1", op.name).lock_type # op.type

Outbid(who, op) ==
    /\ op.bid_amount >= 0
    /\ locker_id_t(who, op.cookie) \notin Live("o1", op.name)
    /\ \E x \in DOMAIN BidsFor("o1", op.name) \ {who} :
           /\ BidsFor("o1", op.name)[x].expiration >= now
           /\ BidsFor("o1", op.name)[x].amount < op.bid_amount

Keeping(name, ids) ==
    [lock_type |-> Persisted("o1", name).lock_type,
     tag |-> Persisted("o1", name).tag,
     lockers |-> [x \in ids |-> Persisted("o1", name).lockers[x]]]

(* C18 as the specification words it: a release of an (identity, cookie)   *)
(* that is not in the record after the sweep returns not-found and leaves  *)
(* the persisted record unchanged; a release of one that is there removes  *)
(* that entry and keeps every other locker, the kind and the tag of a      *)
(* record that is not ephemeral.                                           *)
C18_ReleaseAsWorded ==
    \A who \in Clients, cookie \in Cookies :
        LET res == TryRemove("o1", "foo", who, cookie)
            id == locker_id_t(who, cookie)
        IN  /\ id \notin Live("o1", "foo") =>
                (res.r = ENOENT /\ res.store = TheStore)
            /\ (id \in Live("o1", "foo")
                /\ ~cls_lock_is_ephemeral(Persisted("o1", "foo").lock_type)) =>
                /\ res.r = OK
                /\ res.store.xattrs["o1"][Key("foo")]
                       = Keeping("foo", Live("o1", "foo") \ {id})

(* C18: release.  unlock or break_lock of an (identity, cookie) that is not *)
(* in the record after the sweep returns not-found and leaves the store     *)
(* unchanged, except that an ExclusiveEphemeral record whose lockers have   *)
(* all expired is removed with its object by the sweep.  When the pair is   *)
(* there and the record is not ephemeral, the call succeeds and the record  *)
(* written keeps the kind, the tag and every other unexpired locker, and    *)
(* no other attribute changes.                                              *)
C18_Release ==
    \A who \in Clients, cookie \in Cookies :
        LET res == TryRemove("o1", "foo", who, cookie)
            id == locker_id_t(who, cookie)
        IN  /\ id \notin Live("o1", "foo") =>
                /\ res.r = ENOENT
                /\ res.store = IF SweptEmpty("o1", "foo")
                               THEN cls_cxx_remove(TheStore, "o1")
                               ELSE TheStore
            /\ (id \in Live("o1", "foo")
                /\ ~cls_lock_is_ephemeral(Persisted("o1", "foo").lock_type)) =>
                /\ res.r = OK
                /\ res.store =
                       Store(exists,
                             [xattrs EXCEPT !["o1"] =
                                 Put(xattrs["o1"], Key("foo"),
                                     Keeping("foo", Live("o1", "foo") \ {id}))])

(* an unlock has just removed one locker of a Shared record and another *)
(* client's locker is still there                                       *)
C18_Witness ==
    /\ last.method = "unlock" /\ last.r = OK /\ last.why = "write_lock"
    /\ Persisted("o1", "foo").lock_type = LOCK_SHARED
    /\ Live("o1", "foo") # {}
    /\ \A id \in Holders("o1", "foo") : id[1] # last.who

(* the lockers a read of (o1, name) in the store st keeps *)
LockersIn(st, name) == read_lock(st, "o1", name, now, IoOk).lock.lockers

(* C19: unlock removes only a locker of the calling identity.  An unlock by *)
(* X with cookie c leaves the unexpired entry (Y, c) of every other         *)
(* identity Y in the record as it was, and returns not-found when (X, c) is *)
(* not an unexpired locker; a break_lock that names (Y, c) succeeds and     *)
(* removes that entry, whoever the caller is.                               *)
C19_UnlockOnlyOwnLocker ==
    \A x \in Clients, y \in Clients, cookie \in Cookies :
        LET unl == do_unlock(TheStore, now, "o1", Origin(x, TYPE_MSGR2),
                             cls_lock_unlock_op("foo", cookie), IoOk)
            idx == locker_id_t(x, cookie)
            idy == locker_id_t(y, cookie)
        IN  /\ idx \notin Live("o1", "foo") => unl.r = ENOENT
            /\ (x # y /\ idy \in Live("o1", "foo")) =>
                  /\ idy \in DOMAIN LockersIn(unl.store, "foo")
                  /\ LockersIn(unl.store, "foo")[idy] = Persisted("o1", "foo").lockers[idy]
                  /\ \A caller \in Callers :
                        LET brk == do_break_lock(TheStore, now, "o1",
                                                 Origin(caller, TYPE_MSGR2),
                                                 cls_lock_break_op("foo", y, cookie),
                                                 IoOk)
                        IN  /\ brk.r = OK
                            /\ idy \notin DOMAIN LockersIn(brk.store, "foo")

(* c1 has just unlocked with the cookie under which c2 holds the Shared lock *)
(* too: c1's entry is gone and c2's entry is there                         *)
C19_Witness ==
    /\ last.method = "unlock" /\ last.who = "c1" /\ last.r = OK
    /\ Live("o1", "foo") = {locker_id_t("c2", "k1")}
    /\ Persisted("o1", "foo").lock_type = LOCK_SHARED

(* the assert_locked calls with a valid kind and the name "foo" *)
Asserts == [name : {"foo"}, type : Types, cookie : Cookies, tag : Tags]

(* the record after the sweep has a locker, the kind and the tag of the *)
(* call, and the entry of (who, cookie)                                 *)
HeldAs(who, op) ==
    /\ Live("o1", op.name) # {}
    /\ Persisted("o1", op.name).lock_type = op.type
    /\ Persisted("o1", op.name).tag = op.tag
    /\ locker_id_t(who, op.cookie) \in Live("o1", op.name)

(* C20 as the specification words it: assert_locked with a valid kind and a *)
(* name succeeds if and only if the record after the sweep has a locker,    *)
(* the asserted kind, the asserted tag and the entry of (caller, cookie),   *)
(* and fails with the busy error in every other case.                       *)
C20_AssertBusyOtherwise ==
    \A who \in Clients, op \in Asserts :
        TryAssert("o1", who, op).r = IF HeldAs(who, op) THEN OK ELSE EBUSY

(* C20: on an object that exists, assert_locked with a valid kind and a     *)
(* name succeeds if and only if the record after the sweep has a locker,    *)
(* the asserted kind, the asserted tag and the entry of (caller, cookie),   *)
(* and fails with the busy error otherwise; on an object that does not      *)
(* exist it fails with not-found, and a read that fails gives its error.    *)
C20_AssertLocked ==
    \A who \in Clients, op \in Asserts :
        /\ TryAssert("o1", who, op).r =
               IF ~exists["o1"] THEN ENOENT
               ELSE IF HeldAs(who, op) THEN OK ELSE EBUSY
        /\ assert_locked(TheStore, now, "o1", who, op, IoGet).r = EIO

(* assert_locked of a holder has just succeeded on a Shared record that *)
(* another client holds too                                             *)
C20_Witness ==
    /\ last.method = "assert_locked" /\ last.r = OK
    /\ Persisted("o1", "foo").lock_type = LOCK_SHARED
    /\ \E id \in Live("o1", "foo") : id[1] = last.who
    /\ \E id \in Live("o1", "foo") : id[1] # last.who


(* C21: set_cookie.  A set_cookie that succeeds moves the entry of the       *)
(* caller from (identity, old cookie) to (identity, new cookie) with its     *)
(* expiration, address and description; the record it writes has the kind,   *)
(* the tag, every other locker that a read reports and as many lockers as    *)
(* before.  When (identity, new cookie) is a locker already, the old cookie  *)
(* itself included, the call is rejected busy and the store is unchanged.    *)
(* A call that names the kind, the tag and a locker of the caller, with a    *)
(* new cookie the caller does not hold, succeeds.                            *)
C21_SetCookieMoves ==
    \A who \in Clients, type \in Types, cookie \in Cookies, new_cookie \in Cookies :
        LET op == cls_lock_set_cookie_op("foo", type, cookie, "", new_cookie)
            res == TrySetCookie("o1", who, op)
            id == locker_id_t(who, cookie)
            new_id == locker_id_t(who, new_cookie)
            before == Live("o1", "foo")
            after == (before \ {id}) \cup {new_id}
        IN  /\ res.r = OK =>
                /\ id \in before /\ new_id \notin before
                /\ Cardinality(after) = Cardinality(before)
                /\ res.store =
                       Store(exists,
                             [xattrs EXCEPT !["o1"] =
                                 Put(xattrs["o1"], Key("foo"),
                                     [lock_type |-> Persisted("o1", "foo").lock_type,
                                      tag |-> Persisted("o1", "foo").tag,
                                      lockers |->
                                          [x \in after |->
                                              IF x = new_id
                                              THEN Persisted("o1", "foo").lockers[id]
                                              ELSE Persisted("o1", "foo").lockers[x]]])])
            /\ new_id \in before => (res.r = EBUSY /\ res.store = TheStore)
            /\ (HeldAs(who, [name |-> "foo", type |-> type, cookie |-> cookie,
                             tag |-> ""])
                /\ new_id \notin before) => res.r = OK

(* a set_cookie of c1 has just succeeded on a Shared record that c2 holds *)
(* too: c1 has the new cookie and no longer the old one                   *)
C21_Witness ==
    /\ last.method = "set_cookie" /\ last.r = OK /\ last.who = "c1"
    /\ Persisted("o1", "foo").lock_type = LOCK_SHARED
    /\ \E c \in Cookies :
           /\ locker_id_t("c1", c) \in Live("o1", "foo")
           /\ \A d \in Cookies \ {c} : locker_id_t("c1", d) \notin Holders("o1", "foo")
    /\ locker_id_t("c2", "k1") \in Live("o1", "foo")

(* C22 as the specification words it: a set_cookie with a valid kind and a  *)
(* name, made when (caller, old cookie) is not a locker of the record,      *)
(* fails not-found, as the unlock of that pair does, and not busy.          *)
C22_AbsentLockerIsNotFound ==
    \A who \in Clients, type \in Types, cookie \in Cookies, new_cookie \in Cookies :
        locker_id_t(who, cookie) \notin Live("o1", "foo") =>
            /\ TrySetCookie("o1", who,
                   cls_lock_set_cookie_op("foo", type, cookie, "", new_cookie)).r
                   = ENOENT
            /\ TryRemove("o1", "foo", who, cookie).r = ENOENT

(* C22: the error of set_cookie for an absent locker.  A set_cookie with a  *)
(* valid kind and a name, made when (caller, old cookie) is not a locker of *)
(* the record, fails busy on an object that exists, the error of every      *)
(* other failed check of set_cookie, and not-found only when the object is  *)
(* not there and the read fails; unlock and break_lock of that pair fail    *)
(* not-found in both cases.                                                 *)
C22_AbsentLockerIsBusy ==
    \A who \in Clients, type \in Types, cookie \in Cookies, new_cookie \in Cookies :
        locker_id_t(who, cookie) \notin Live("o1", "foo") =>
            /\ TrySetCookie("o1", who,
                   cls_lock_set_cookie_op("foo", type, cookie, "", new_cookie)).r
                   = IF exists["o1"] THEN EBUSY ELSE ENOENT
            /\ TryRemove("o1", "foo", who, cookie).r = ENOENT
            /\ EBUSY # ENOENT

(* a set_cookie of a cookie the caller does not hold has just been rejected *)
(* busy on a record that another cookie of the caller holds                 *)
C22_Witness ==
    /\ last.method = "set_cookie" /\ last.r = EBUSY
    /\ last.why = "not_locked_by_client"
    /\ exists["o1"]
    /\ \E c \in Cookies : locker_id_t(last.who, c) \in Live("o1", "foo")

(* C23: no empty ExclusiveEphemeral record.  In every reachable state each  *)
(* persisted record of kind ExclusiveEphemeral has exactly one locker in    *)
(* its lockers map: a grant writes one locker, set_cookie keeps it, and a   *)
(* release deletes the record instead of writing it back empty.             *)
C23_NoEmptyEphemeralRecord ==
    \A o \in DOMAIN xattrs : \A name \in LockNames(o) :
        cls_lock_is_ephemeral(Persisted(o, name).lock_type) =>
            Cardinality(Holders(o, name)) = 1

(* the one locker of an ExclusiveEphemeral record has just been released: *)
(* the record is gone and not rewritten                                   *)
C23_Witness ==
    /\ last.method \in {"unlock", "break_lock"}
    /\ last.r = OK /\ last.why = "clean_lock"
    /\ LockNames("o1") = {}

(* C24: the mutex of the bid table.  A lock call owns bids_mtx exactly      *)
(* while it is in the registration of its bid (lines 230-249) or in the     *)
(* scan of the bids (lines 312-333); a call that is at its read_lock or     *)
(* its write_lock does not own it; and at most one call is in one of the    *)
(* two critical sections at a time.                                         *)
C24_MutexOnlyAroundBids ==
    /\ \A who \in Requesters :
           /\ bids_mtx = who <=> calls[who].pc \in {"bid_233", "scan_313"}
           /\ calls[who].pc \in {"read_252", "write_337"} => bids_mtx # who
    /\ Cardinality({who \in Requesters : calls[who].pc \in {"bid_233", "scan_313"}}) <= 1
    /\ bids_mtx \in Requesters \cup {NoMutex}

(* one call is inside the scan with the mutex while the other waits for the *)
(* mutex at line 230 or 312                                                 *)
C24_Witness ==
    \E who \in Requesters, other \in Requesters :
        /\ who # other
        /\ bids_mtx = who /\ calls[who].pc = "scan_313"
        /\ calls[other].pc \in {"lock_230", "lock_312"}
        /\ calls[other].o # calls[who].o

(* the outcome of the call of who had it run alone, in one piece, on the *)
(* store of its object and the bids of its lock name as they were when   *)
(* it began                                                              *)
Alone(who) ==
    lock_obj(calls[who].st0, calls[who].b0, calls[who].t, calls[who].o,
             Origin(who, TYPE_MSGR2), calls[who].op, IoOk)

(* C25: bids are scoped to their (object, lock name).  Under every          *)
(* interleaving of the steps of lock calls on different objects, a call on  *)
(* (o, n) returns what it would return had nothing else run since it began  *)
(* and were no bid of another (object, lock name) in the table, and it      *)
(* leaves the record of (o, n) and the bids of (o, n) as that run would;    *)
(* the scan of a call on (o, n) leaves the bids of every other object and   *)
(* every other lock name as they were.                                      *)
C25_BidsScopedToObjectAndName ==
    /\ [](\A who \in Requesters :
              calls[who].pc = "done" =>
                  /\ calls[who].r = Alone(who).r
                  /\ calls[who].why = Alone(who).why
                  /\ exists[calls[who].o] = Alone(who).store.exists[calls[who].o]
                  /\ xattrs[calls[who].o] = Alone(who).store.xattrs[calls[who].o]
                  /\ ClientBidMap(bids, calls[who].o, calls[who].op.name)
                         = ClientBidMap(Alone(who).bids, calls[who].o,
                                        calls[who].op.name))
    /\ [][\A who \in Requesters :
              (calls[who].pc = "scan_313" /\ calls'[who].pc # "scan_313") =>
                  \A o \in DOMAIN bids : \A n \in DOMAIN bids[o] :
                      <<o, n>> # <<calls[who].o, calls[who].op.name>> =>
                          ClientBidMap(bids', o, n) = ClientBidMap(bids, o, n)]_vars

(* the call of c1 on (o1, foo) with amount 5 has been granted while a bid   *)
(* of c2 with amount 3 is in the table, unexpired, for (o2, foo) and for    *)
(* (o1, bar), and a call of c2 on o2 is under way                           *)
C25_Witness ==
    /\ calls["c1"].pc = "done" /\ calls["c1"].r = OK /\ calls["c1"].why = "grant"
    /\ calls["c1"].o = "o1" /\ calls["c1"].op.name = "foo"
    /\ "c2" \in DOMAIN ClientBidMap(bids, "o2", "foo")
    /\ ClientBidMap(bids, "o2", "foo")["c2"].expiration >= calls["c1"].t
    /\ "c2" \in DOMAIN ClientBidMap(bids, "o1", "bar")
    /\ ClientBidMap(bids, "o1", "bar")["c2"].expiration >= calls["c1"].t
    /\ calls["c2"].pc \notin {"idle", "done"} /\ calls["c2"].o = "o2"

(* C26: a renewal bypasses the auction.  A lock call with may-renew or      *)
(* must-renew by an (identity, cookie) that is a locker of the Exclusive or *)
(* ExclusiveEphemeral record is granted as a renewal whatever amount it     *)
(* bids, also when another bidder has a lower unexpired bid for the object  *)
(* and lock name; the bid table it leaves is the table with the bid of the  *)
(* call registered and nothing purged.                                      *)
C26_RenewalBypassesAuction ==
    \A who \in {"c1", "c2"}, flags \in {{LOCK_FLAG_MAY_RENEW}, {LOCK_FLAG_MUST_RENEW}} :
    \A type \in {LOCK_EXCLUSIVE, LOCK_EXCLUSIVE_EPHEMERAL}, amount \in {0, BidOf(who), 9} :
        LET op == cls_lock_lock_op("foo", type, 1, "", flags, "k1", "", amount,
                                   BidDuration)
            res == TryLock("o1", who, op)
        IN  locker_id_t(who, "k1") \in Live("o1", "foo") =>
                /\ res.r = OK /\ res.why = "renew"
                /\ res.bids = UpdateBid(bids, "o1", "foo", who,
                                        BidRecord(amount, now + BidDuration))

(* c1 has just renewed with amount 5 while the bid of c2, amount 3, is in *)
(* the table and has not expired                                          *)
C26_Witness ==
    /\ last.method = "lock" /\ last.who = "c1" /\ last.r = OK /\ last.why = "renew"
    /\ "c2" \in DOMAIN ClientBidMap(bids, "o1", "foo")
    /\ ClientBidMap(bids, "o1", "foo")["c2"].expiration >= now
    /\ ClientBidMap(bids, "o1", "foo")["c2"].amount < ClientBidMap(bids, "o1", "foo")["c1"].amount

(* C27: no partial grant.  Whenever a lock call returns an error, whether   *)
(* it is rejected or a store call of it fails, the store is as it was       *)
(* before the call, except that an ExclusiveEphemeral record whose lockers  *)
(* have all expired is deleted by the sweep of the read; a rejected call of *)
(* an (identity, cookie) that is an unexpired locker leaves the record, its *)
(* entry included, as it was.                                               *)
C27_NoPartialGrant ==
    \A who \in Clients, type \in Types, flags \in Renewals, tag \in Tags :
    \A io \in {IoOk, IoGet, IoSet, IoRemove} :
        LET op == cls_lock_lock_op("foo", type, 1, "", flags, "k1", tag, NoBid, 0)
            res == lock_obj(TheStore, bids, now, "o1", Origin(who, TYPE_MSGR2), op, io)
            id == locker_id_t(who, "k1")
        IN  res.r # OK =>
                /\ res.store = IF SweptEmpty("o1", "foo") /\ io \notin {IoGet, IoRemove}
                               THEN cls_cxx_remove(TheStore, "o1")
                               ELSE TheStore
                /\ id \in Live("o1", "foo") =>
                       /\ Key("foo") \in DOMAIN res.store.xattrs["o1"]
                       /\ res.store.xattrs["o1"][Key("foo")] = Persisted("o1", "foo")

(* c1, a locker of a Shared record that c2 holds too, has just asked for *)
(* another kind and was rejected busy: both entries are still there      *)
C27_Witness ==
    /\ last.method = "lock" /\ last.who = "c1" /\ last.r = EBUSY
    /\ last.why = "exclusive"
    /\ Persisted("o1", "foo").lock_type = LOCK_SHARED
    /\ locker_id_t("c1", "k1") \in Live("o1", "foo")
    /\ locker_id_t("c2", "k1") \in Live("o1", "foo")

C29_AssertEmptyHolds ==
    /\ last.r # ABORT
    /\ \A who \in Clients, cookie \in Cookies :
           /\ TryRemove("o1", "foo", who, cookie).r # ABORT
           /\ (cls_lock_is_ephemeral(Persisted("o1", "foo").lock_type)
               /\ locker_id_t(who, cookie) \in Live("o1", "foo")) =>
                  /\ Live("o1", "foo") = {locker_id_t(who, cookie)}
                  /\ TryRemove("o1", "foo", who, cookie).why = "clean_lock"

(* a break_lock has just removed the one locker of an ExclusiveEphemeral *)
(* record: the assertion held and the object is gone                     *)
C29_Witness ==
    /\ last.method = "break_lock" /\ last.r = OK /\ last.why = "clean_lock"
    /\ ~exists["o1"]

(* C30: the empty record stays.  After an unlock or a break_lock has        *)
(* removed the last locker of an Exclusive or Shared record, the attribute  *)
(* is still there with the kind and the tag and no locker: get_info         *)
(* succeeds and returns no lockers, list_locks reports the lock name, and   *)
(* a lock call of any client with any kind, any tag and any cookie that is  *)
(* not must-renew is granted.                                               *)
C30_EmptyRecordStays ==
    (/\ last.method \in {"unlock", "break_lock"}
     /\ last.r = OK /\ last.why = "write_lock"
     /\ Holders("o1", "foo") = {}) =>
        /\ Key("foo") \in DOMAIN xattrs["o1"]
        /\ Persisted("o1", "foo").lock_type \in {LOCK_EXCLUSIVE, LOCK_SHARED}
        /\ TryGetInfo("o1", "foo").r = OK
        /\ TryGetInfo("o1", "foo").ret =
               [lock_type |-> Persisted("o1", "foo").lock_type,
                tag |-> Persisted("o1", "foo").tag, lockers |-> NoLockers]
        /\ list_locks(TheStore, "o1", IoOk).r = OK
        /\ "foo" \in list_locks(TheStore, "o1", IoOk).locks
        /\ \A who \in Clients, op \in TagLocks :
               LOCK_FLAG_MUST_RENEW \notin op.flags =>
                   /\ TryLock("o1", who, op).r = OK
                   /\ TryLock("o1", who, op).why = "grant"

(* the one locker of a Shared record with the tag "t" has just been *)
(* unlocked: the record is there, empty, with its kind and its tag  *)
C30_Witness ==
    /\ last.method = "unlock" /\ last.r = OK /\ last.why = "write_lock"
    /\ Key("foo") \in DOMAIN xattrs["o1"]
    /\ Holders("o1", "foo") = {}
    /\ Persisted("o1", "foo").lock_type = LOCK_SHARED
    /\ Persisted("o1", "foo").tag = "t"

(* C31: the tie-break of the auction.  When the lock is free and c1 and c2  *)
(* both have the same unexpired amount in the table, the lowest there, the  *)
(* lock call of either of them that is evaluated first is granted, and the  *)
(* call of the other, evaluated next while the first holds the lock, is     *)
(* rejected busy and leaves the record of the first as it is; the record    *)
(* never has two lockers.                                                   *)
C31_TieGoesToFirst ==
    /\ Cardinality(Live("o1", "foo")) <= 1
    /\ \A who \in {"c1", "c2"}, op1 \in TieLocks, op2 \in TieLocks :
           LET other == IF who = "c1" THEN "c2" ELSE "c1"
               first == TryLock("o1", who, op1)
               second == lock_obj(first.store, first.bids, now, "o1",
                                  Origin(other, TYPE_MSGR2), op2, IoOk)
           IN  (/\ Live("o1", "foo") = {}
                /\ LiveBid("o1", "foo", "c1") /\ LiveBid("o1", "foo", "c2")
                /\ BidsFor("o1", "foo")["c1"].amount = BidsFor("o1", "foo")["c2"].amount) =>
                   /\ first.r = OK /\ first.why = "grant"
                   /\ second.r = EBUSY /\ second.why = "exclusive"
                   /\ second.store = first.store
                   /\ DOMAIN first.store.xattrs["o1"][Key("foo")].lockers
                          = {locker_id_t(who, "k1")}

(* c1 and c2 have the same unexpired amount in the table; one of them *)
(* holds the lock and the call of the other has just been rejected    *)
C31_Witness ==
    /\ last.method = "lock" /\ last.r = EBUSY /\ last.why = "exclusive"
    /\ LiveBid("o1", "foo", "c1") /\ LiveBid("o1", "foo", "c2")
    /\ BidsFor("o1", "foo")["c1"].amount = BidsFor("o1", "foo")["c2"].amount
    /\ \E holder \in {"c1", "c2"} \ {last.who} :
           Live("o1", "foo") = {locker_id_t(holder, "k1")}

(* C32: a lock call without a bid takes no part in the auction.  A lock     *)
(* call with bid_amount -1 leaves the bid table as it was, whatever its     *)
(* outcome; when the record has no unexpired locker and the call is not     *)
(* must-renew it is granted, also when other clients have unexpired bids    *)
(* for the object and the lock name.                                        *)
C32_NoBidNoAuction ==
    \A who \in {"c1", "c2"}, type \in Types, flags \in Renewals :
    \A io \in {IoOk, IoSet} :
        LET op == cls_lock_lock_op("foo", type, 1, "", flags, "k1", "", NoBid, 0)
            res == lock_obj(TheStore, bids, now, "o1", Origin(who, TYPE_MSGR2), op, io)
        IN  /\ res.bids = bids
            /\ (Live("o1", "foo") = {} /\ io = IoOk
                /\ LOCK_FLAG_MUST_RENEW \notin flags) =>
                   (res.r = OK /\ res.why = "grant")

(* a client that has no bid in the table has just been granted the lock *)
(* while the bid of the other client is in the table and unexpired      *)
C32_Witness ==
    /\ last.method = "lock" /\ last.r = OK /\ last.why = "grant"
    /\ last.who \notin DOMAIN BidsFor("o1", "foo")
    /\ Live("o1", "foo") = {locker_id_t(last.who, "k1")}
    /\ \E other \in {"c1", "c2"} \ {last.who} : LiveBid("o1", "foo", other)
=============================================================================
